---- MODULE Spec2Model ----
(***************************************************************************)
(* A model of the Tetris engines of js48jjw/Tetris.                        *)
(*                                                                         *)
(* The "bag variant" is the TetrisGame component at the top of             *)
(* src/unnamed/part_000 (lines 1-760).  Its React state (board,            *)
(* currentPiece, currentPosition, nextPiece, score, level, lines,          *)
(* gameOver, isPaused, gameStarted, bagRef) is the state of the model; one *)
(* action models one call of a handler, applied to the committed state     *)
(* (React batches every setState of one event handler into one commit).    *)
(*                                                                         *)
(* Coordinates are those of the code: x is the column 0..9, y is the row   *)
(* 0..19, row 0 at the top.  TLA+ sequences are indexed from 1, so the     *)
(* cell board[y][x] of the code is board[y + 1][x + 1] here.               *)
(***************************************************************************)
EXTENDS Integers, Sequences, FiniteSets, TLC

\* ------------------------------------------------------------------------
\* Program constants
\* ------------------------------------------------------------------------

BOARD_WIDTH == 10

BOARD_HEIGHT == 20

\* The empty board cell: the number 0 of the code (type BoardCell = string | 0).
\* Every other cell value is a colour string, which JavaScript treats as true.
EMPTY == "0"

TETROMINO_KEYS == <<"I", "O", "T", "S", "Z", "J", "L">>

\* TETROMINOS of the bag variant: tight rectangular grids.
TETROMINOS ==
  [ I |-> [shape |-> << <<1, 1, 1, 1>> >>,             color |-> "cyan",   key |-> "I"],
    O |-> [shape |-> << <<1, 1>>, <<1, 1>> >>,         color |-> "yellow", key |-> "O"],
    T |-> [shape |-> << <<0, 1, 0>>, <<1, 1, 1>> >>,   color |-> "purple", key |-> "T"],
    S |-> [shape |-> << <<0, 1, 1>>, <<1, 1, 0>> >>,   color |-> "green",  key |-> "S"],
    Z |-> [shape |-> << <<1, 1, 0>>, <<0, 1, 1>> >>,   color |-> "red",    key |-> "Z"],
    J |-> [shape |-> << <<1, 0, 0>>, <<1, 1, 1>> >>,   color |-> "blue",   key |-> "J"],
    L |-> [shape |-> << <<0, 0, 1>>, <<1, 1, 1>> >>,   color |-> "orange", key |-> "L"] ]

\* TETROMINOS of page.tsx, of app/ServiceWorkerRegister.tsx and of the hook
\* variant (useTetrisGame): square grids padded with empty rows.
PADDED_TETROMINOS ==
  [ I |-> [shape |-> << <<0, 0, 0, 0>>, <<1, 1, 1, 1>>, <<0, 0, 0, 0>>, <<0, 0, 0, 0>> >>,
           color |-> "tetris-cyan", key |-> "I"],
    O |-> [shape |-> << <<1, 1>>, <<1, 1>> >>,
           color |-> "tetris-yellow", key |-> "O"],
    T |-> [shape |-> << <<0, 1, 0>>, <<1, 1, 1>>, <<0, 0, 0>> >>,
           color |-> "tetris-purple", key |-> "T"],
    S |-> [shape |-> << <<0, 1, 1>>, <<1, 1, 0>>, <<0, 0, 0>> >>,
           color |-> "tetris-green", key |-> "S"],
    Z |-> [shape |-> << <<1, 1, 0>>, <<0, 1, 1>>, <<0, 0, 0>> >>,
           color |-> "tetris-red", key |-> "Z"],
    J |-> [shape |-> << <<1, 0, 0>>, <<1, 1, 1>>, <<0, 0, 0>> >>,
           color |-> "tetris-blue", key |-> "J"],
    L |-> [shape |-> << <<0, 0, 1>>, <<1, 1, 1>>, <<0, 0, 0>> >>,
           color |-> "tetris-orange", key |-> "L"] ]

POINTS_SINGLE == 100

POINTS_DOUBLE == 300

POINTS_TRIPLE == 500

POINTS_TETRIS == 800

POINTS_SOFT_DROP == 1

POINTS_HARD_DROP == 2

\* currentPiece / nextPiece = null (useState<Tetromino | null>(null)).
NoPiece == [shape |-> <<>>, color |-> "null", key |-> "null"]

\* ------------------------------------------------------------------------
\* Pure functions of the bag variant
\* ------------------------------------------------------------------------

\* Mutant of calcLevel: the level is not raised by one
\* (Math.floor(lines / 10) alone).
calcLevelFromZero(n) == n \div 10

\* calcLevel(lines) = Math.floor(lines / 10) + 1
calcLevel(n) == (n \div 10) + 1

\* Mutant of RotateShape: the grid is taken to be square, its rows counted
\* for its columns (piece.shape.map in place of piece.shape[0].map).
RotateShapeSquare(shape) ==
  LET h == Len(shape)
  IN  [i \in 1..h |-> [j \in 1..h |-> shape[h + 1 - j][i]]]

\* rotatePiece: rotated[i] is column i of the shape read from the bottom row
\* to the top row (piece.shape[0].map((_, i) => piece.shape.map(row => row[i]).reverse())).
RotateShape(shape) ==
  LET h == Len(shape)
      w == Len(shape[1])
  IN  [i \in 1..w |-> [j \in 1..h |-> shape[h + 1 - j][i]]]

rotatePiece(piece) == [piece EXCEPT !.shape = RotateShape(piece.shape)]

\* Mutant of isValidPosition: the board is read at the piece's own row
\* pos.y for every sub-cell (board[pos.y][newX] in place of board[newY][newX]).
isValidPositionTopRow(b, piece, pos) ==
  \A r \in 1..Len(piece.shape) :
    \A c \in 1..Len(piece.shape[r]) :
      piece.shape[r][c] = 1 =>
        LET newX == pos.x + (c - 1)
            newY == pos.y + (r - 1)
        IN  /\ ~(newX < 0 \/ newX >= BOARD_WIDTH \/ newY >= BOARD_HEIGHT)
            /\ ~(pos.y >= 0 /\ b[pos.y + 1][newX + 1] # EMPTY)

isValidPosition(b, piece, pos) ==
  \A r \in 1..Len(piece.shape) :
    \A c \in 1..Len(piece.shape[r]) :
      piece.shape[r][c] = 1 =>
        LET newX == pos.x + (c - 1)
            newY == pos.y + (r - 1)
        IN  /\ ~(newX < 0 \/ newX >= BOARD_WIDTH \/ newY >= BOARD_HEIGHT)
            /\ ~(newY >= 0 /\ b[newY + 1][newX + 1] # EMPTY)

\* Mutant of placePiece: the cell gets the shape's entry, not the colour
\* (newBoard[boardY][boardX] = piece.shape[y][x]).
placePieceMarks(b, piece, pos) ==
  [y \in 1..Len(b) |->
    LET r == y - pos.y
    IN  IF r < 1 \/ r > Len(piece.shape) THEN b[y]
        ELSE [x \in 1..Len(b[y]) |->
               LET c == x - pos.x
               IN  IF c >= 1 /\ c <= Len(piece.shape[r]) /\ piece.shape[r][c] = 1
                   THEN "1"
                   ELSE b[y][x]]]

\* placePiece: a copy of the board with the piece's colour written to every
\* occupied sub-cell whose row is >= 0 (cells above the board are dropped).
\* Board row y - 1 holds the shape's row r = y - pos.y, and column x - 1 its
\* column c = x - pos.x.
placePiece(b, piece, pos) ==
  [y \in 1..Len(b) |->
    LET r == y - pos.y
    IN  IF r < 1 \/ r > Len(piece.shape) THEN b[y]
        ELSE [x \in 1..Len(b[y]) |->
               LET c == x - pos.x
               IN  IF c >= 1 /\ c <= Len(piece.shape[r]) /\ piece.shape[r][c] = 1
                   THEN piece.color
                   ELSE b[y][x]]]

EmptyRow == [x \in 1..BOARD_WIDTH |-> EMPTY]

EmptyBoard == [y \in 1..BOARD_HEIGHT |-> EmptyRow]

\* row.some(cell => !cell)
HasHole(row) == \E x \in 1..Len(row) : row[x] = EMPTY

\* Mutant of clearLines: the empty rows are added below the kept rows
\* ([...newBoard, ...emptyRows]).
clearLinesBelow(b) ==
  LET newBoard == SelectSeq(b, HasHole)
      clearedLines == BOARD_HEIGHT - Len(newBoard)
      emptyRows == [i \in 1..clearedLines |-> EmptyRow]
  IN  [board |-> newBoard \o emptyRows, clearedLines |-> clearedLines]

\* Mutant of clearLines: only the lowest full row is removed.
clearLinesLowestOnly(b) ==
  LET full == { y \in 1..Len(b) : ~HasHole(b[y]) }
      low == CHOOSE y \in full : \A z \in full : z <= y
  IN  IF full = {} THEN [board |-> b, clearedLines |-> 0]
      ELSE [board |-> <<EmptyRow>> \o SubSeq(b, 1, low - 1) \o SubSeq(b, low + 1, Len(b)),
            clearedLines |-> 1]

\* clearLines: newBoard is board.filter(row => row.some(cell => !cell)).
clearLines(b) ==
  LET newBoard == SelectSeq(b, HasHole)
      clearedLines == BOARD_HEIGHT - Len(newBoard)
      emptyRows == [i \in 1..clearedLines |-> EmptyRow]
  IN  [board |-> emptyRows \o newBoard, clearedLines |-> clearedLines]

\* Mutant of LinePoints: the switch has no case 4.
LinePointsNoTetris(n) ==
  CASE n = 1 -> POINTS_SINGLE
    [] n = 2 -> POINTS_DOUBLE
    [] n = 3 -> POINTS_TRIPLE
    [] OTHER -> 0

\* The switch of movePiece and dropPiece: points stays 0 when no case matches.
LinePoints(n) ==
  CASE n = 1 -> POINTS_SINGLE
    [] n = 2 -> POINTS_DOUBLE
    [] n = 3 -> POINTS_TRIPLE
    [] n = 4 -> POINTS_TETRIS
    [] OTHER -> 0

\* Mutant of dropInterval: the interval has no floor.
dropIntervalNoFloor(lv) == 1000 - (lv - 1) * 100

\* Line 451: const dropInterval = Math.max(50, 1000 - (level - 1) * 100).
dropInterval(lv) ==
  LET t == 1000 - (lv - 1) * 100
  IN  IF t > 50 THEN t ELSE 50

\* startPos of spawnNewPiece.
StartPos(piece) == [x |-> (BOARD_WIDTH - Len(piece.shape[1])) \div 2, y |-> 0]


\* ------------------------------------------------------------------------
\* State
\* ------------------------------------------------------------------------

VARIABLES
  board,            \* useState<Board>
  currentPiece,     \* useState<Tetromino | null>
  currentPosition,  \* useState<Position>
  nextPiece,        \* useState<Tetromino | null>
  score, level, lines,
  gameOver, isPaused, gameStarted,
  bag,              \* bagRef.current
  last,             \* the most recent call: its name, arguments and outcome
  plan, ip,         \* the input plan the player follows, and how far it got
  free,             \* events that happened since the player left the script
  draws,            \* keys popped from the bag since startGame emptied it
  actives,          \* keys of the pieces that became the active piece this game
  snap,             \* if the last call was togglePause: the game state before
                    \* it, and the call made before it
  held,             \* moveIntervalRef.current: the interval of a held move
                    \* button and what its callback's closure captured
  rot,              \* a shape being rotated again and again (SpecRot)
  clr,              \* a board given to clearLines, and the result (SpecClear)
  ivl,              \* a level and the timer interval computed for it (SpecInterval)
  app,              \* the useState values of a padded variant (SpecPadded)
  anims,            \* the closures of its hard drop animations still to run
  hist              \* what its calls did so far, by piece

gameVars == <<board, currentPiece, currentPosition, nextPiece, score, level, lines,
              gameOver, isPaused, gameStarted, bag>>

envVars == <<plan, ip, free>>

histVars == <<draws, actives, snap>>

pureVars == <<rot, clr, ivl>>

touchVars == <<held>>

paddedVars == <<app, anims, hist>>

vars == <<gameVars, touchVars, last, envVars, histVars, pureVars, paddedVars>>

\* ------------------------------------------------------------------------
\* The piece generator
\* ------------------------------------------------------------------------

\* The results of [...TETROMINO_KEYS].sort(() => Math.random() - 0.5) that the
\* model draws from.  pop() takes the LAST element, so a shuffle is drawn
\* right to left.
ScriptShuffle == <<"L", "J", "Z", "S", "T", "O", "I">>

Shuffles == { ScriptShuffle, <<"I", "O", "T", "S", "Z", "J", "L">> }

\* Mutant of createRandomPiece: the bag is refilled one piece too early
\* (length <= 1 in place of length === 0).
createRandomPieceEarlyRefill(b, sh) ==
  LET full == IF Len(b) <= 1 THEN sh ELSE b
  IN  [piece |-> TETROMINOS[full[Len(full)]],
       bag   |-> SubSeq(full, 1, Len(full) - 1)]

\* createRandomPiece on bag b, where sh is what the shuffle returns if the
\* bag has to be refilled: the piece drawn and the bag left.
createRandomPiece(b, sh) ==
  LET full == IF Len(b) = 0 THEN sh ELSE b
  IN  [piece |-> TETROMINOS[full[Len(full)]],
       bag   |-> SubSeq(full, 1, Len(full) - 1)]

\* Mutant of spawnNewPiece: the piece spawned is always a new draw, the
\* next piece shown to the player is thrown away.
spawnNewPieceFresh(np, b, sh) ==
  LET d1 == createRandomPiece(b, sh)
      d2 == createRandomPiece(d1.bag, sh)
  IN  [piece |-> d1.piece, startPos |-> StartPos(d1.piece),
       newNextPiece |-> d2.piece, bag |-> d2.bag]

\* Mutant of spawnNewPiece: the new next piece is drawn twice, the first draw
\* is thrown away.
spawnNewPieceDrawsTwice(np, b, sh) ==
  LET d1 == IF np # NoPiece THEN [piece |-> np, bag |-> b] ELSE createRandomPiece(b, sh)
      d2 == createRandomPiece(d1.bag, sh)
      d3 == createRandomPiece(d2.bag, sh)
  IN  [piece |-> d1.piece, startPos |-> StartPos(d1.piece),
       newNextPiece |-> d3.piece, bag |-> d3.bag]

\* spawnNewPiece with np the nextPiece its closure holds.
spawnNewPiece(np, b, sh) ==
  LET d1 == IF np # NoPiece THEN [piece |-> np, bag |-> b] ELSE createRandomPiece(b, sh)
      d2 == createRandomPiece(d1.bag, sh)
  IN  [piece |-> d1.piece, startPos |-> StartPos(d1.piece),
       newNextPiece |-> d2.piece, bag |-> d2.bag]

\* ------------------------------------------------------------------------
\* The player and the timer
\* ------------------------------------------------------------------------

MaxFreeSteps == 2

Rep(tok, n) == [i \in 1..n |-> tok]

\* The sequence seq played n times.
Cycle(seq, n) == [i \in 1..(n * Len(seq)) |-> seq[((i - 1) % Len(seq)) + 1]]

\* The scripted openings.  A token is one event: S startGame, L / R / D
\* movePiece(-1 / +1, 0 / 0, +1 with isPlayerMove), T the timer's
\* movePiece(0, 1), U rotate, X dropPiece, P togglePause.
\* ScriptTetris: an opening that stacks a nine-column field and clears four
\* rows with a vertical I, then 2, 1, 2, 2, 1 and 1 rows (13 lines, level 2),
\* every clearing piece being carried down and locked by the timer; then the
\* player hard-drops pieces without moving them until the game is over, and
\* restarts.
\* ScriptLevels: an opening that clears 1, 1, 3, 1, 2, 1, 1 and 3 rows, the
\* clearing pieces locked in turn by hard drop, soft drop and timer; then the
\* timer alone runs until the game is over.
\* ScriptKickUp: nine pieces stacked under the spawn rows, then a rotation of
\* the S piece in row 0.
\* ScriptODown: the first piece of the game, the O piece, is moved down by
\* the player until it locks on the floor.
\* ScriptHold: the O piece is moved down to the floor, the player then
\* touches the left button and keeps it down while the timer locks the piece
\* and the button's interval fires (HL / HR touch start on the left / right
\* button, H the interval's callback, E touch end; these events happen in
\* SpecHold only).
\* All five are written for the shuffle ScriptShuffle.  At any event the
\* player may leave the script, and then goes on freely for MaxFreeSteps
\* events, the bag being refilled with any shuffle of Shuffles.
ScriptTetris ==
  <<"S">> \o Rep("R", 3) \o <<"X">> \o <<"R">> \o <<"X">> \o <<"L">> \o <<"X">> \o
  <<"U">> \o Rep("L", 2) \o <<"X">> \o <<"U">> \o Rep("L", 3) \o Rep("X", 2) \o
  <<"U">> \o Rep("R", 3) \o <<"X">> \o Rep("R", 3) \o <<"X">> \o <<"L">> \o <<"X">> \o
  Rep("L", 3) \o Rep("X", 2) \o Rep("U", 2) \o Rep("R", 2) \o <<"X">> \o Rep("U", 2) \o
  Rep("L", 3) \o <<"X">> \o <<"U">> \o Rep("R", 6) \o Rep("T", 17) \o Rep("R", 4) \o
  Rep("T", 19) \o Rep("R", 2) \o Rep("X", 2) \o Rep("R", 4) \o <<"X">> \o
  Rep("L", 3) \o Rep("T", 19) \o Rep("L", 2) \o <<"X">> \o <<"R">> \o <<"X">> \o
  Rep("L", 4) \o <<"X">> \o <<"U">> \o <<"L">> \o <<"X">> \o <<"U">> \o Rep("R", 5) \o
  Rep("T", 18) \o <<"X">> \o Rep("U", 3) \o Rep("R", 3) \o <<"X">> \o <<"U">> \o
  Rep("L", 3) \o <<"X">> \o Rep("L", 2) \o <<"X">> \o <<"R">> \o <<"X">> \o
  Rep("U", 3) \o Rep("R", 5) \o Rep("T", 18) \o <<"U">> \o Rep("L", 3) \o <<"X">> \o
  <<"U">> \o Rep("R", 5) \o Rep("T", 18) \o <<"L">> \o <<"X">> \o Rep("R", 2) \o
  Rep("T", 19) \o <<"X">> \o Rep("L", 3) \o Rep("X", 11) \o <<"S">>

ScriptLevels ==
  <<"S">> \o <<"R">> \o <<"X">> \o Rep("L", 2) \o <<"X">> \o <<"U">> \o <<"X">> \o
  <<"U">> \o Rep("L", 3) \o <<"X">> \o Rep("R", 4) \o <<"X">> \o <<"U">> \o
  Rep("R", 5) \o Rep("D", 18) \o <<"R">> \o <<"X">> \o <<"L">> \o <<"X">> \o
  Rep("U", 3) \o Rep("L", 2) \o <<"X">> \o Rep("R", 3) \o <<"X">> \o <<"U">> \o
  Rep("R", 2) \o <<"X">> \o <<"U">> \o Rep("L", 3) \o <<"X">> \o <<"L">> \o <<"X">> \o
  <<"U">> \o Rep("R", 6) \o Rep("T", 17) \o Rep("R", 3) \o <<"X">> \o <<"U">> \o
  Rep("R", 2) \o <<"X">> \o Rep("L", 3) \o Rep("T", 19) \o <<"U">> \o <<"X">> \o
  Rep("R", 3) \o <<"X">> \o Rep("U", 2) \o Rep("L", 3) \o <<"X">> \o <<"U">> \o
  Rep("R", 6) \o <<"X">> \o Rep("R", 3) \o <<"X">> \o Rep("L", 2) \o <<"X">> \o
  <<"U">> \o <<"R">> \o <<"X">> \o <<"U">> \o Rep("L", 3) \o Rep("D", 18) \o <<"U">> \o
  <<"X">> \o Rep("U", 2) \o Rep("R", 3) \o <<"X">> \o <<"U">> \o Rep("L", 3) \o
  <<"X">> \o <<"L">> \o <<"X">> \o <<"U">> \o Rep("R", 2) \o <<"X">> \o <<"U">> \o
  Rep("L", 2) \o <<"X">> \o Rep("R", 3) \o <<"X">> \o <<"U">> \o <<"L">> \o <<"X">> \o
  Rep("U", 3) \o Rep("R", 5) \o <<"X">> \o Rep("T", 93)

ScriptKickUp ==
  <<"S">> \o <<"X">> \o <<"U">> \o Rep("R", 2) \o <<"X">> \o <<"U">> \o <<"R">> \o
  <<"X">> \o <<"L">> \o <<"X">> \o <<"U">> \o <<"X">> \o Rep("U", 2) \o <<"R">> \o
  <<"X">> \o <<"L">> \o <<"X">> \o <<"R">> \o <<"X">> \o Rep("U", 2) \o <<"L">> \o
  <<"X">> \o <<"L">> \o <<"U">>

ScriptODown == <<"S">> \o Rep("D", 19)

ScriptHold == <<"S">> \o Rep("D", 18) \o <<"HL", "T", "H">>

Plans == << <<>>, ScriptTetris, ScriptLevels, ScriptKickUp, ScriptODown, ScriptHold >>

Script == Plans[plan]

Scripted == ip < Len(Script)

\* The event tok is the script's next one, and the player still follows it.
OnScript(tok) == free = 0 /\ Scripted /\ Script[ip + 1] = tok

\* The event tok may happen now: it is the script's next token, or the
\* player leaves the script (or has left it, or the script is over) and
\* fewer than MaxFreeSteps events happened off the script.
Env(tok) == OnScript(tok) \/ free < MaxFreeSteps

\* The call refilled the bag with a shuffle other than the scripts' one.
OtherDeal ==
  /\ bag' # bag
  /\ last'.op = "start" \/ bag = <<>>
  /\ bag' # SubSeq(ScriptShuffle, 1, Len(bag'))

\* One event has happened.  It was a step of the script if it is the
\* script's next token and the bag, if refilled, got the scripts' shuffle;
\* otherwise the player has left the script.
Advance(tok) ==
  LET on == OnScript(tok) /\ ~OtherDeal
  IN  /\ on \/ free < MaxFreeSteps
      /\ plan' = plan
      /\ ip' = IF on THEN ip + 1 ELSE ip
      /\ free' = IF on THEN free ELSE free + 1

NoCall == [op |-> "none", dx |-> 0, dy |-> 0, player |-> FALSE, res |-> "none",
           kick |-> 0, dist |-> 0, cleared |-> 0]

NoRot == [variant |-> "none", key |-> "none", shape |-> <<>>, n |-> 0]

NoClr == [input |-> <<>>, out |-> <<>>, clearedLines |-> 0, done |-> FALSE]

NoSnap == [before |-> <<>>, prev |-> "none"]

NoIvl == [level |-> 0, ms |-> 0, next |-> 0, done |-> FALSE]

\* moveIntervalRef.current = null
NoHold == [dx |-> 0]

\* No padded variant is mounted.
NoApp == [variant |-> "none"]

IdlePadded == app = NoApp /\ anims = <<>> /\ hist = <<>>

InitGame ==
  /\ board = EmptyBoard
  /\ currentPiece = NoPiece
  /\ currentPosition = [x |-> 0, y |-> 0]
  /\ nextPiece = NoPiece
  /\ score = 0
  /\ level = 1
  /\ lines = 0
  /\ gameOver = FALSE
  /\ isPaused = FALSE
  /\ gameStarted = FALSE
  /\ bag = <<>>
  /\ held = NoHold
  /\ last = NoCall
  /\ ip = 0
  /\ free = 0
  /\ draws = <<>>
  /\ actives = <<>>
  /\ snap = NoSnap

Init ==
  /\ InitGame
  /\ IdlePadded
  /\ plan \in 1..Len(Plans)
  /\ rot = NoRot
  /\ clr = NoClr
  /\ ivl = NoIvl

\* ------------------------------------------------------------------------
\* Operations of the bag variant
\* ------------------------------------------------------------------------

Running == gameStarted /\ ~gameOver /\ ~isPaused

\* Mutant of togglePause: the call pauses, and never resumes
\* (setIsPaused(true)).
togglePauseOnly ==
  /\ isPaused' = IF gameOver THEN isPaused ELSE TRUE
  /\ UNCHANGED <<board, currentPiece, currentPosition, nextPiece, score, level, lines,
                 gameOver, gameStarted, bag>>
  /\ last' = [NoCall EXCEPT !.op = "pause",
                !.res = IF gameOver THEN "noop" ELSE "toggled"]

\* Mutant of CannotAct: the guard does not test isPaused.
CannotActIgnoresPause == currentPiece = NoPiece \/ gameOver

\* The first line of movePiece, rotatePieceHandler and dropPiece:
\* if (!currentPiece || gameOver || isPaused) return;
CannotAct == currentPiece = NoPiece \/ gameOver \/ isPaused

\* Mutant of ClearScore: the points are multiplied by the level that the
\* cleared rows lead to (newLevel in place of level).
ClearScoreNewLevel(prev, clearedLines) ==
  IF clearedLines > 0
  THEN prev + LinePoints(clearedLines) * calcLevel(lines + clearedLines)
  ELSE prev

\* Mutant of ClearScore: the points replace the score
\* (setScore(points * level) in place of setScore(prev => prev + ...)).
ClearScoreOverwrites(prev, clearedLines) ==
  IF clearedLines > 0 THEN LinePoints(clearedLines) * level ELSE prev

\* Lines 222-231 (and 352-361): the score after the clear, prev being the
\* score the updater function is given.
ClearScore(prev, clearedLines) ==
  IF clearedLines > 0 THEN prev + LinePoints(clearedLines) * level ELSE prev

\* Mutant of SpawnBlocked: the spawn position is tested on the board of the
\* closure (board in place of clearedBoard), which has not got the locked
\* piece yet.
SpawnBlockedOnOldBoard(clearedBoard, newPiece, startPos) ==
  ~isValidPosition(board, newPiece, startPos)

\* Lines 242 and 368: if (!isValidPosition(clearedBoard, newPiece, startPos)).
SpawnBlocked(clearedBoard, newPiece, startPos) ==
  ~isValidPosition(clearedBoard, newPiece, startPos)

\* The lock sequence shared by movePiece (lines 213-247) and dropPiece (lines
\* 342-372): place, clear, score the clear, recompute the level, spawn, and
\* test the spawn position.  bonus is what the caller has added to the score
\* before (dropPiece's distance bonus; 0 in movePiece).
LockPiece(pos, bonus, sh) ==
  LET newBoard == placePiece(board, currentPiece, pos)
      cl == clearLines(newBoard)
      newLines == lines + cl.clearedLines
      sp == spawnNewPiece(nextPiece, bag, sh)
      over == SpawnBlocked(cl.board, sp.piece, sp.startPos)
  IN  /\ board' = cl.board
      /\ lines' = lines + cl.clearedLines
      /\ score' = ClearScore(score + bonus, cl.clearedLines)
      /\ level' = calcLevel(newLines)
      /\ currentPiece' = sp.piece
      /\ currentPosition' = sp.startPos
      /\ nextPiece' = sp.newNextPiece
      /\ bag' = sp.bag
      /\ gameOver' = (gameOver \/ over)
      /\ gameStarted' = (gameStarted /\ ~over)
      /\ UNCHANGED isPaused

\* Mutant of SoftDropPoints: every move of the player scores.
SoftDropPointsAnyMove(dy, isPlayerMove) ==
  IF isPlayerMove THEN POINTS_SOFT_DROP ELSE 0

\* Mutant of SoftDropPoints: every move down scores, the timer's too.
SoftDropPointsAnyDown(dy, isPlayerMove) ==
  IF dy > 0 THEN POINTS_SOFT_DROP ELSE 0

\* Line 205: the soft drop score of a successful move.
SoftDropPoints(dy, isPlayerMove) ==
  IF isPlayerMove /\ dy > 0 THEN POINTS_SOFT_DROP ELSE 0

\* Mutant of LocksPiece: any move that cannot be made locks the piece
\* (else in place of else if (dy > 0)).
LocksPieceAlways(dx, dy) == TRUE

\* Line 211: a move that cannot be made locks the piece if it was downwards.
LocksPiece(dx, dy) == dy > 0

\* movePiece(dx, dy, isPlayerMove)
movePiece(dx, dy, isPlayerMove) ==
  LET newPos == [x |-> currentPosition.x + dx, y |-> currentPosition.y + dy]
      call == [NoCall EXCEPT !.op = "move", !.dx = dx, !.dy = dy, !.player = isPlayerMove]
  IN  IF CannotAct
      THEN /\ UNCHANGED gameVars
           /\ last' = [call EXCEPT !.res = "noop"]
      ELSE IF isValidPosition(board, currentPiece, newPos)
      THEN /\ currentPosition' = newPos
           /\ score' = score + SoftDropPoints(dy, isPlayerMove)
           /\ UNCHANGED <<board, currentPiece, nextPiece, level, lines,
                          gameOver, isPaused, gameStarted, bag>>
           /\ last' = [call EXCEPT !.res = "moved"]
      ELSE IF LocksPiece(dx, dy)
      THEN /\ \E sh \in Shuffles : LockPiece(currentPosition, 0, sh)
           /\ last' = [call EXCEPT !.res = "locked",
                         !.cleared = clearLines(placePiece(board, currentPiece,
                                                           currentPosition)).clearedLines]
      ELSE /\ UNCHANGED gameVars
           /\ last' = [call EXCEPT !.res = "blocked"]

\* wallKicks of rotatePieceHandler, in the order they are tried.
wallKicks ==
  << [x |-> 0, y |-> 0], [x |-> -1, y |-> 0], [x |-> 1, y |-> 0],
     [x |-> 0, y |-> -1], [x |-> -1, y |-> -1], [x |-> 1, y |-> -1] >>

KickPos(k) == [x |-> currentPosition.x + wallKicks[k].x,
               y |-> currentPosition.y + wallKicks[k].y]

\* Mutant of FirstKick: the loop has no break, the last valid kick wins.
LastKick(rotatedPiece) ==
  LET ok == { k \in 1..Len(wallKicks) : isValidPosition(board, rotatedPiece, KickPos(k)) }
  IN  IF ok = {} THEN 0 ELSE CHOOSE k \in ok : \A j \in ok : k >= j

\* The index of the first kick at which the rotated piece is valid; 0 if none.
FirstKick(rotatedPiece) ==
  LET ok == { k \in 1..Len(wallKicks) : isValidPosition(board, rotatedPiece, KickPos(k)) }
  IN  IF ok = {} THEN 0 ELSE CHOOSE k \in ok : \A j \in ok : k <= j

\* rotatePieceHandler (through handleRotate, whose guard is the same)
rotatePieceHandler ==
  LET rotatedPiece == rotatePiece(currentPiece)
      call == [NoCall EXCEPT !.op = "rotate"]
  IN  IF CannotAct
      THEN /\ UNCHANGED gameVars
           /\ last' = [call EXCEPT !.res = "noop"]
      ELSE LET k == FirstKick(rotatedPiece)
           IN  IF k = 0
               THEN /\ UNCHANGED gameVars
                    /\ last' = [call EXCEPT !.res = "rejected"]
               ELSE /\ currentPiece' = rotatedPiece
                    /\ currentPosition' = KickPos(k)
                    /\ UNCHANGED <<board, nextPiece, score, level, lines,
                                   gameOver, isPaused, gameStarted, bag>>
                    /\ last' = [call EXCEPT !.res = "rotated", !.kick = k]

\* Mutant of DropDistance: the loop probes row newY in place of newY + 1, and
\* so counts one row too many.
RECURSIVE DropDistanceTooFar(_)
DropDistanceTooFar(d) ==
  IF isValidPosition(board, currentPiece,
                     [x |-> currentPosition.x, y |-> currentPosition.y + d])
  THEN DropDistanceTooFar(d + 1)
  ELSE d

\* The while loop of dropPiece: the number of rows the piece can fall.
RECURSIVE DropDistance(_)
DropDistance(d) ==
  IF isValidPosition(board, currentPiece,
                     [x |-> currentPosition.x, y |-> currentPosition.y + d + 1])
  THEN DropDistance(d + 1)
  ELSE d

\* dropPiece
dropPiece ==
  LET call == [NoCall EXCEPT !.op = "drop"]
  IN  IF CannotAct
      THEN /\ UNCHANGED gameVars
           /\ last' = [call EXCEPT !.res = "noop"]
      ELSE LET dropDistance == DropDistance(0)
               newY == currentPosition.y + dropDistance
               pos == [x |-> currentPosition.x, y |-> newY]
           IN  /\ \E sh \in Shuffles :
                    LockPiece(pos, dropDistance * POINTS_HARD_DROP, sh)
               /\ last' = [call EXCEPT !.res = "locked", !.dist = dropDistance,
                             !.cleared = clearLines(placePiece(board, currentPiece,
                                                               pos)).clearedLines]

\* Mutant of startGame: the level is not reset (no setLevel(1)).
startGameKeepsLevel ==
  \E sh \in Shuffles :
    LET d0 == createRandomPiece(<<>>, sh)
        sp == spawnNewPiece(nextPiece, d0.bag, sh)
    IN  /\ board' = EmptyBoard
        /\ score' = 0
        /\ level' = level
        /\ lines' = 0
        /\ gameOver' = FALSE
        /\ isPaused' = FALSE
        /\ gameStarted' = TRUE
        /\ bag' = sp.bag
        /\ currentPiece' = sp.piece
        /\ currentPosition' = sp.startPos
        /\ nextPiece' = sp.newNextPiece
        /\ last' = [NoCall EXCEPT !.op = "start", !.res = "started"]

\* startGame.  The nextPiece that spawnNewPiece reads is the one of the
\* render that created it, that is the state before this call: the piece
\* drawn at line 391 is overwritten by spawnNewPiece's own setNextPiece.
startGame ==
  \E sh \in Shuffles :
    LET d0 == createRandomPiece(<<>>, sh)
        sp == spawnNewPiece(nextPiece, d0.bag, sh)
    IN  /\ board' = EmptyBoard
        /\ score' = 0
        /\ level' = 1
        /\ lines' = 0
        /\ gameOver' = FALSE
        /\ isPaused' = FALSE
        /\ gameStarted' = TRUE
        /\ bag' = sp.bag
        /\ currentPiece' = sp.piece
        /\ currentPosition' = sp.startPos
        /\ nextPiece' = sp.newNextPiece
        /\ last' = [NoCall EXCEPT !.op = "start", !.res = "started"]

\* togglePause
togglePause ==
  /\ isPaused' = IF gameOver THEN isPaused ELSE ~isPaused
  /\ UNCHANGED <<board, currentPiece, currentPosition, nextPiece, score, level, lines,
                 gameOver, gameStarted, bag>>
  /\ last' = [NoCall EXCEPT !.op = "pause",
                !.res = IF gameOver THEN "noop" ELSE "toggled"]

\* ------------------------------------------------------------------------
\* Events
\* ------------------------------------------------------------------------

\* handleKeyPress(e) with e.key one of the keys of its switch.  The touch
\* buttons call the same handlers, and are disabled unless the game runs.
handleKeyPress(key) ==
  IF ~gameStarted
  THEN /\ UNCHANGED gameVars
       /\ last' = [NoCall EXCEPT !.op = "key", !.res = "ignored"]
  ELSE CASE key = "ArrowLeft"  -> movePiece(-1, 0, TRUE)
         [] key = "ArrowRight" -> movePiece(1, 0, TRUE)
         [] key = "ArrowDown"  -> movePiece(0, 1, TRUE)
         [] key = "ArrowUp"    -> rotatePieceHandler
         [] key = " "          -> dropPiece
         [] key = "p"          -> togglePause

\* What the call did to the bag and to the active piece, recorded: the keys
\* popped from the bag (bagRef.current.pop() takes the last element), and the
\* key of a piece that became the active piece.
Popped ==
  LET full == IF last'.op = "start" \/ (bag = <<>> /\ bag' # bag)
              THEN CHOOSE sh \in Shuffles : bag' = SubSeq(sh, 1, Len(bag'))
              ELSE bag
      n == Len(full) - Len(bag')
  IN  [i \in 1..n |-> full[Len(full) + 1 - i]]

Observe ==
  /\ draws' = IF last'.op = "start" THEN Popped ELSE draws \o Popped
  /\ actives' = IF last'.op = "start" THEN <<currentPiece'.key>>
                ELSE IF last'.res = "locked" THEN Append(actives, currentPiece'.key)
                ELSE actives
  /\ snap' = IF last'.op = "pause" THEN [before |-> gameVars, prev |-> last.op]
                                     ELSE NoSnap

\* The two "start" buttons (lines 622 and 669) are rendered only while the
\* game is not started.
Start ==
  /\ ~gameStarted
  /\ Env("S")
  /\ startGame
  /\ Observe
  /\ Advance("S")
  /\ UNCHANGED <<touchVars, pureVars, paddedVars>>

KeyLeft ==
  Env("L") /\ handleKeyPress("ArrowLeft") /\ Observe /\ Advance("L") /\ UNCHANGED <<touchVars, pureVars, paddedVars>>

KeyRight ==
  Env("R") /\ handleKeyPress("ArrowRight") /\ Observe /\ Advance("R") /\ UNCHANGED <<touchVars, pureVars, paddedVars>>

KeyDown ==
  Env("D") /\ handleKeyPress("ArrowDown") /\ Observe /\ Advance("D") /\ UNCHANGED <<touchVars, pureVars, paddedVars>>

\* The game loop's timer (lines 448-458): movePiece(0, 1).  The effect sets no
\* timer unless the game is started, not over and not paused (line 449).
Tick ==
  Running /\ Env("T") /\ movePiece(0, 1, FALSE) /\ Observe /\ Advance("T") /\ UNCHANGED <<touchVars, pureVars, paddedVars>>

Rotate ==
  Env("U") /\ handleKeyPress("ArrowUp") /\ Observe /\ Advance("U") /\ UNCHANGED <<touchVars, pureVars, paddedVars>>

Drop ==
  Env("X") /\ handleKeyPress(" ") /\ Observe /\ Advance("X") /\ UNCHANGED <<touchVars, pureVars, paddedVars>>

Pause ==
  Env("P") /\ handleKeyPress("p") /\ Observe /\ Advance("P") /\ UNCHANGED <<touchVars, pureVars, paddedVars>>

Next ==
  \/ Start
  \/ KeyLeft
  \/ KeyRight
  \/ KeyDown
  \/ Tick
  \/ Rotate
  \/ Drop
  \/ Pause

Spec == Init /\ [][Next]_vars

\* ------------------------------------------------------------------------
\* The held move buttons (SpecHold)
\* ------------------------------------------------------------------------

\* startContinuousMove(dx): movePiece(dx, 0, true) now, and an interval whose
\* callback calls the same movePiece, that is the function of the render in
\* which the touch started, with the state of that render in its closure.
startContinuousMove(dx) ==
  /\ movePiece(dx, 0, TRUE)
  /\ held' = [dx |-> dx, board |-> board, currentPiece |-> currentPiece,
              currentPosition |-> currentPosition, gameOver |-> gameOver,
              isPaused |-> isPaused]

\* The interval's callback (line 263): movePiece(dx, 0, true) of the closure
\* held.  Its guard and its collision test read the captured state, and
\* setCurrentPosition(newPos) writes the position computed from it.  With
\* dy = 0 the call never locks.
heldMovePiece ==
  LET newPos == [x |-> held.currentPosition.x + held.dx, y |-> held.currentPosition.y]
      call == [NoCall EXCEPT !.op = "repeat", !.dx = held.dx, !.player = TRUE]
  IN  IF held.currentPiece = NoPiece \/ held.gameOver \/ held.isPaused
      THEN /\ UNCHANGED gameVars
           /\ last' = [call EXCEPT !.res = "noop"]
      ELSE IF isValidPosition(held.board, held.currentPiece, newPos)
      THEN /\ currentPosition' = newPos
           /\ score' = score + SoftDropPoints(0, TRUE)
           /\ UNCHANGED <<board, currentPiece, nextPiece, level, lines,
                          gameOver, isPaused, gameStarted, bag>>
           /\ last' = [call EXCEPT !.res = "moved"]
      ELSE /\ UNCHANGED gameVars
           /\ last' = [call EXCEPT !.res = "blocked"]

\* stopContinuousMove
stopContinuousMove ==
  /\ held' = NoHold
  /\ UNCHANGED gameVars
  /\ last' = [NoCall EXCEPT !.op = "release"]

\* onTouchStart of the left and right buttons (lines 695 and 705); the
\* buttons are disabled unless the game runs.
TouchStartLeft ==
  /\ Running
  /\ Env("HL")
  /\ startContinuousMove(-1)
  /\ Observe
  /\ Advance("HL")
  /\ UNCHANGED <<pureVars, paddedVars>>

TouchStartRight ==
  /\ Running
  /\ Env("HR")
  /\ startContinuousMove(1)
  /\ Observe
  /\ Advance("HR")
  /\ UNCHANGED <<pureVars, paddedVars>>

\* The interval set at line 262 fires.
Repeat ==
  /\ held # NoHold
  /\ Env("H")
  /\ heldMovePiece
  /\ Observe
  /\ Advance("H")
  /\ UNCHANGED <<touchVars, pureVars, paddedVars>>

\* onTouchEnd (lines 696 and 706)
TouchEnd ==
  /\ held # NoHold
  /\ Env("E")
  /\ stopContinuousMove
  /\ Observe
  /\ Advance("E")
  /\ UNCHANGED <<pureVars, paddedVars>>

NextHold ==
  \/ Next
  \/ TouchStartLeft
  \/ TouchStartRight
  \/ Repeat
  \/ TouchEnd

SpecHold == Init /\ [][NextHold]_vars

\* ------------------------------------------------------------------------
\* rotatePiece applied again and again to a template (SpecRot)
\* ------------------------------------------------------------------------

MaxTurns == 8

\* rotatePiece of page.tsx (and of the other padded variants): the same
\* transform behind a null check.
rotatePiecePadded(piece) ==
  IF piece = NoPiece THEN NoPiece
  ELSE [piece EXCEPT !.shape = RotateShape(piece.shape)]

Template(variant, key) ==
  IF variant = "bag" THEN TETROMINOS[key] ELSE PADDED_TETROMINOS[key]

KeySet == { TETROMINO_KEYS[i] : i \in 1..Len(TETROMINO_KEYS) }

InitRot ==
  /\ InitGame
  /\ IdlePadded
  /\ plan = 1
  /\ clr = NoClr
  /\ ivl = NoIvl
  /\ \E v \in {"bag", "padded"} : \E k \in KeySet :
       rot = [variant |-> v, key |-> k, shape |-> Template(v, k).shape, n |-> 0]

RotStep ==
  /\ rot.n < MaxTurns
  /\ LET piece == [Template(rot.variant, rot.key) EXCEPT !.shape = rot.shape]
         turned == IF rot.variant = "bag" THEN rotatePiece(piece)
                                          ELSE rotatePiecePadded(piece)
     IN  rot' = [rot EXCEPT !.shape = turned.shape, !.n = rot.n + 1]
  /\ UNCHANGED <<gameVars, touchVars, last, envVars, histVars, clr, ivl, paddedVars>>

SpecRot == InitRot /\ [][RotStep]_vars

\* ------------------------------------------------------------------------
\* createRandomPiece called again and again (SpecBag)
\* ------------------------------------------------------------------------

MaxDraws == 15

\* The shuffles SpecBag draws from: those of the game, and two more.
BagShuffles ==
  Shuffles \cup { <<"T", "I", "L", "O", "S", "J", "Z">>,
                  <<"O", "Z", "I", "J", "T", "L", "S">> }

\* bagRef.current = [] of startGame, and no draw made yet.
InitBag ==
  /\ InitGame
  /\ IdlePadded
  /\ plan = 1
  /\ rot = NoRot
  /\ clr = NoClr
  /\ ivl = NoIvl

DrawStep ==
  /\ Len(draws) < MaxDraws
  /\ \E sh \in (IF bag = <<>> THEN BagShuffles ELSE {ScriptShuffle}) :
       LET d == createRandomPiece(bag, sh)
       IN  /\ bag' = d.bag
           /\ draws' = Append(draws, d.piece.key)
  /\ UNCHANGED <<board, currentPiece, currentPosition, nextPiece, score, level, lines,
                 gameOver, isPaused, gameStarted>>
  /\ UNCHANGED <<touchVars, last, envVars, actives, snap, pureVars, paddedVars>>

SpecBag == InitBag /\ [][DrawStep]_vars

\* ------------------------------------------------------------------------
\* clearLines applied to a board (SpecClear)
\* ------------------------------------------------------------------------

MaxStack == 5

\* The rows the boards are built from: empty, full in one colour, full in
\* two colours, full but for column 0, empty but for column 9.
RowKinds ==
  << EmptyRow,
     [x \in 1..BOARD_WIDTH |-> "cyan"],
     [x \in 1..BOARD_WIDTH |-> IF x % 2 = 0 THEN "red" ELSE "blue"],
     [x \in 1..BOARD_WIDTH |-> IF x = 1 THEN EMPTY ELSE "green"],
     [x \in 1..BOARD_WIDTH |-> IF x = BOARD_WIDTH THEN "orange" ELSE EMPTY] >>

\* The board whose bottom rows are the rows f[1], f[2], ... (top to bottom)
\* and whose other rows are empty.
StackBoard(f) ==
  LET k == Len(f)
  IN  [y \in 1..BOARD_HEIGHT |->
        IF y > BOARD_HEIGHT - k THEN RowKinds[f[y - (BOARD_HEIGHT - k)]] ELSE EmptyRow]

InitClear ==
  /\ InitGame
  /\ IdlePadded
  /\ plan = 1
  /\ rot = NoRot
  /\ ivl = NoIvl
  /\ \E f \in [1..MaxStack -> 1..Len(RowKinds)] :
       clr = [NoClr EXCEPT !.input = StackBoard(f)]

ClearStep ==
  /\ ~clr.done
  /\ LET res == clearLines(clr.input)
     IN  clr' = [clr EXCEPT !.out = res.board, !.clearedLines = res.clearedLines,
                            !.done = TRUE]
  /\ UNCHANGED <<gameVars, touchVars, last, envVars, histVars, rot, ivl, paddedVars>>

SpecClear == InitClear /\ [][ClearStep]_vars

\* ------------------------------------------------------------------------
\* The timer interval of a level (SpecInterval)
\* ------------------------------------------------------------------------

MaxLevel == 60

InitInterval ==
  /\ InitGame
  /\ IdlePadded
  /\ plan = 1
  /\ rot = NoRot
  /\ clr = NoClr
  /\ \E lv \in 1..MaxLevel : ivl = [NoIvl EXCEPT !.level = lv]

\* The game loop effect runs for the level, and for the level after it.
IntervalStep ==
  /\ ~ivl.done
  /\ ivl' = [ivl EXCEPT !.ms = dropInterval(ivl.level),
                        !.next = dropInterval(ivl.level + 1),
                        !.done = TRUE]
  /\ UNCHANGED <<gameVars, touchVars, last, envVars, histVars, rot, clr, paddedVars>>

SpecInterval == InitInterval /\ [][IntervalStep]_vars


\* ------------------------------------------------------------------------
\* The variants with padded templates and animations: page.tsx, the hook
\* useTetrisGame, and the synchronous TetrisGame of ServiceWorkerRegister.tsx
\* (SpecPadded).  The three share createRandomTetromino, checkCollision,
\* placePiece and rotatePiece word for word; the state of the component is
\* the record app, a pending hard drop animation is a closure in anims.
\* ------------------------------------------------------------------------

Variants == {"page", "hook", "classic"}

\* The useState initial values.  The classic variant has no clearingRows,
\* animationColumn and isClearing: there the three fields never change.
InitApp(v) ==
  [variant |-> v, board |-> EmptyBoard, currentPiece |-> NoPiece, nextPiece |-> NoPiece,
   score |-> 0, lines |-> 0, level |-> 1, gameOver |-> FALSE, isPaused |-> FALSE,
   gameStarted |-> FALSE, clearingRows |-> {}, animationColumn |-> -1,
   isClearing |-> FALSE]

\* What the calls did, by piece: serial numbers the pieces that became
\* active; writes, promos and bonus list the serial of the locked piece at
\* each setBoard of a board with the piece, at each setCurrentPiece(nextPiece)
\* and at each setScore of a drop bonus; dropped lists the pieces that
\* hardDrop was called for; locked is the piece whose lock started the line
\* clear animation in progress, shown the board it was locked on; dealt
\* counts the calls of createRandomTetromino.
NoHist ==
  [serial |-> 0, writes |-> <<>>, promos |-> <<>>, bonus |-> <<>>, dropped |-> {},
   locked |-> NoPiece, dealt |-> 0]

\* Mutant of createRandomTetromino: the board's width is not halved.
createRandomTetrominoRight(k) ==
  LET t == PADDED_TETROMINOS[k]
  IN  [shape |-> t.shape, color |-> t.color, key |-> k,
       x |-> BOARD_WIDTH - (Len(t.shape[1]) \div 2), y |-> 0]

\* createRandomTetromino, k being the key that Math.random selects.
createRandomTetromino(k) ==
  LET t == PADDED_TETROMINOS[k]
  IN  [shape |-> t.shape, color |-> t.color, key |-> k,
       x |-> (BOARD_WIDTH \div 2) - (Len(t.shape[1]) \div 2), y |-> 0]

\* checkCollision(piece, boardState, dx, dy)
checkCollision(piece, boardState, dx, dy) ==
  IF piece = NoPiece THEN FALSE
  ELSE \E r \in 1..Len(piece.shape) :
         \E c \in 1..Len(piece.shape[r]) :
           /\ piece.shape[r][c] = 1
           /\ LET newX == piece.x + (c - 1) + dx
                  newY == piece.y + (r - 1) + dy
              IN  \/ newX < 0 \/ newX >= BOARD_WIDTH \/ newY >= BOARD_HEIGHT
                  \/ (newY >= 0 /\ boardState[newY + 1][newX + 1] # EMPTY)

\* placePiece(piece, boardState) of the three variants: the colour is
\* written to every occupied sub-cell of the piece that lies on the board.
placePiecePadded(piece, boardState) ==
  [y \in 1..Len(boardState) |->
    [x \in 1..Len(boardState[y]) |->
      LET r == y - piece.y
          c == x - piece.x
      IN  IF /\ r >= 1 /\ r <= Len(piece.shape)
             /\ c >= 1 /\ c <= Len(piece.shape[r])
             /\ piece.shape[r][c] = 1
          THEN piece.color
          ELSE boardState[y][x]]]

\* getClearedLines: the indices (from 0) of the rows without an empty cell.
\* The callers use the array's length and includes() only.
getClearedLines(boardState) ==
  { y \in 0..(BOARD_HEIGHT - 1) :
      \A x \in 1..BOARD_WIDTH : boardState[y + 1][x] # EMPTY }

\* boardState.filter((_, y) => !linesToRemove.includes(y)), from row y on.
RECURSIVE filterRows(_, _, _)
filterRows(boardState, linesToRemove, y) ==
  IF y >= Len(boardState) THEN <<>>
  ELSE IF y \in linesToRemove THEN filterRows(boardState, linesToRemove, y + 1)
  ELSE <<boardState[y + 1]>> \o filterRows(boardState, linesToRemove, y + 1)

\* removeAndShiftLines(boardState, linesToRemove)
removeAndShiftLines(boardState, linesToRemove) ==
  LET newBoard == filterRows(boardState, linesToRemove, 0)
      newEmptyRows == [i \in 1..Cardinality(linesToRemove) |-> EmptyRow]
  IN  newEmptyRows \o newBoard

\* The loop of the classic clearLines: from the bottom row up, a full row is
\* spliced out, an empty row is put on top, and the same index is tested
\* again.
RECURSIVE clearLoop(_, _, _)
clearLoop(newBoard, y, clearedCount) ==
  IF y < 0 THEN [board |-> newBoard, clearedCount |-> clearedCount]
  ELSE IF \A x \in 1..BOARD_WIDTH : newBoard[y + 1][x] # EMPTY
  THEN clearLoop(<<EmptyRow>> \o SubSeq(newBoard, 1, y)
                   \o SubSeq(newBoard, y + 2, Len(newBoard)),
                 y, clearedCount + 1)
  ELSE clearLoop(newBoard, y - 1, clearedCount)

\* clearLines of the classic variant
clearLinesClassic(boardState) == clearLoop(boardState, BOARD_HEIGHT - 1, 0)

\* setScore, setLines and setLevel after clearedCount rows were cleared:
\* [0, 40, 100, 300, 1200][clearedCount] * level, Math.floor(newLines / 10) + 1.
ScoreLines(a, clearedCount) ==
  [a EXCEPT !.score = @ + <<0, 40, 100, 300, 1200>>[clearedCount + 1] * a.level,
            !.lines = @ + clearedCount,
            !.level = ((a.lines + clearedCount) \div 10) + 1]

\* What a handler returns: the state it leaves, the record of its calls, the
\* pending animations, the number of pieces it drew, and its outcome.
Out(a, h, an, drew, res) ==
  [app |-> a, hist |-> h, anims |-> an, drew |-> drew, res |-> res]

\* initGame of page.tsx and the classic variant (which test the piece one row
\* down) and of the hook (which tests it where it is, and also resets the
\* pause and the animation state); k1 and k2 are the keys drawn.
initGame(a, h, an, k1, k2) ==
  LET newBoard == EmptyBoard
      initialPiece == createRandomTetromino(k1)
      dy == IF a.variant = "hook" THEN 0 ELSE 1
      b == [a EXCEPT !.board = newBoard]
      c == [b EXCEPT !.currentPiece = initialPiece,
                     !.nextPiece = createRandomTetromino(k2),
                     !.score = 0, !.lines = 0, !.level = 1,
                     !.gameOver = FALSE, !.gameStarted = TRUE]
  IN  IF checkCollision(initialPiece, newBoard, 0, dy)
      THEN Out([b EXCEPT !.gameOver = TRUE, !.gameStarted = FALSE], h, an, 1, "over")
      ELSE Out(IF a.variant = "hook"
               THEN [c EXCEPT !.isPaused = FALSE, !.clearingRows = {},
                              !.animationColumn = -1, !.isClearing = FALSE]
               ELSE c,
               [h EXCEPT !.serial = @ + 1], an, 2, "started")

\* The lock of page.tsx (movePiece lines 341-364, animateStep lines 392-414)
\* and of the hook (movePiece lines 1024-1044, animateDrop lines 1087-1105):
\* piece is locked on boardState, next is the nextPiece and bonus the drop
\* score of the caller's closure, s the piece's serial number.  With a full
\* row the animation is started and nothing else is set; otherwise the board
\* is set, and the game ends if the piece is in rows 0-1 (page.tsx) or if it
\* collides with boardState where it is (hook).
lockAnimated(a, h, an, piece, boardState, next, bonus, k, s) ==
  LET newBoard == placePiecePadded(piece, boardState)
      clearedLineYs == getClearedLines(newBoard)
      over == IF a.variant = "hook" THEN checkCollision(piece, boardState, 0, 0)
                                    ELSE piece.y <= 1
  IN  IF clearedLineYs # {}
      THEN Out([a EXCEPT !.clearingRows = clearedLineYs, !.animationColumn = -1,
                         !.isClearing = TRUE],
               [h EXCEPT !.locked = piece], an, 0, "clearing")
      ELSE IF over
      THEN Out([a EXCEPT !.board = newBoard, !.gameOver = TRUE, !.gameStarted = FALSE],
               [h EXCEPT !.writes = Append(@, s)], an, 0, "over")
      ELSE Out([a EXCEPT !.board = newBoard, !.currentPiece = next,
                         !.nextPiece = createRandomTetromino(k),
                         !.score = @ + bonus],
               [h EXCEPT !.writes = Append(@, s), !.promos = Append(@, s),
                         !.serial = @ + 1],
               an, 1, "locked")

\* The lock of the classic variant (movePiece lines 320-332, hardDrop lines
\* 350-375): the rows are cleared at once, and the game ends if the piece is
\* in rows 0-1.
lockClassic(a, h, an, piece, bonus, k, s) ==
  LET newBoard == placePiecePadded(piece, a.board)
      cl == clearLinesClassic(newBoard)
      b == [a EXCEPT !.board = cl.board]
      c == IF cl.clearedCount > 0 THEN ScoreLines(b, cl.clearedCount) ELSE b
      w == [h EXCEPT !.writes = Append(@, s)]
  IN  IF piece.y <= 1
      THEN Out([c EXCEPT !.gameOver = TRUE, !.gameStarted = FALSE], w, an, 0, "over")
      ELSE Out([c EXCEPT !.currentPiece = a.nextPiece,
                         !.nextPiece = createRandomTetromino(k),
                         !.score = @ + bonus],
               [w EXCEPT !.promos = Append(@, s), !.serial = @ + 1],
               an, 1, "locked")

\* movePiece(direction) of the three variants
movePiecePadded(a, h, an, direction, k) ==
  LET dx == CASE direction = "left" -> -1 [] direction = "right" -> 1 [] OTHER -> 0
      dy == IF direction = "down" THEN 1 ELSE 0
  IN  IF \/ a.currentPiece = NoPiece \/ a.gameOver \/ a.isPaused
         \/ (a.variant = "hook" /\ a.isClearing)
      THEN Out(a, h, an, 0, "noop")
      ELSE IF ~checkCollision(a.currentPiece, a.board, dx, dy)
      THEN Out([a EXCEPT !.currentPiece.x = @ + dx, !.currentPiece.y = @ + dy],
               h, an, 0, "moved")
      ELSE IF direction = "down"
      THEN IF a.variant = "classic"
           THEN lockClassic(a, h, an, a.currentPiece, 0, k, h.serial)
           ELSE lockAnimated(a, h, an, a.currentPiece, a.board, a.nextPiece, 0, k,
                             h.serial)
      ELSE Out(a, h, an, 0, "blocked")

\* The while loop of hardDrop
RECURSIVE dropDistancePadded(_, _, _)
dropDistancePadded(piece, boardState, dropDistance) ==
  IF ~checkCollision(piece, boardState, 0, dropDistance + 1)
  THEN dropDistancePadded(piece, boardState, dropDistance + 1)
  ELSE dropDistance

\* animateStep of page.tsx, c being the closure of the hardDrop call: the
\* piece is moved one row and the step is scheduled again, or the piece is
\* locked.  The result's anims has the closure added if it is to run again.
animateStep(a, h, an, c, k) ==
  IF c.piece.y < c.finalY
  THEN LET currentAnimatedPiece == [c.piece EXCEPT !.y = @ + 1]
       IN  Out([a EXCEPT !.currentPiece = currentAnimatedPiece], h,
               Append(an, [c EXCEPT !.piece = currentAnimatedPiece,
                                    !.scoreAccumulated = @ + 2]),
               0, "step")
  ELSE LET r == lockAnimated(a, h, an, c.piece, c.board, c.nextPiece,
                             c.scoreAccumulated, k, c.serial)
       IN  IF r.res = "locked"
           THEN [r EXCEPT !.hist.bonus = Append(@, c.serial)]
           ELSE r

\* The last frame of animateDrop of the hook (progress = 1): the piece is
\* set to its final row and locked.  The frames before it set dropOffsetY
\* only, which the model does not hold.
animateDrop(a, h, an, c, k) ==
  LET droppedPiece == [c.piece EXCEPT !.y = c.finalY]
      r == lockAnimated([a EXCEPT !.currentPiece = droppedPiece], h, an, droppedPiece,
                        c.board, c.nextPiece, c.scoreAccumulated, k, c.serial)
  IN  IF r.res = "locked"
      THEN [r EXCEPT !.hist.bonus = Append(@, c.serial)]
      ELSE r

\* hardDrop.  page.tsx runs the first animateStep itself; the hook cancels
\* the frame that animationRef holds and requests a new one; the classic
\* variant locks the piece at once.
hardDropPadded(a, h, an, k) ==
  IF \/ a.currentPiece = NoPiece \/ a.gameOver \/ a.isPaused
     \/ (a.variant = "hook" /\ a.isClearing)
  THEN Out(a, h, an, 0, "noop")
  ELSE LET dropDistance == dropDistancePadded(a.currentPiece, a.board, 0)
           finalY == a.currentPiece.y + dropDistance
           d == [h EXCEPT !.dropped = @ \cup {h.serial}]
           c == [piece |-> a.currentPiece, dropDistance |-> dropDistance,
                 finalY |-> finalY,
                 scoreAccumulated |-> IF a.variant = "hook" THEN dropDistance * 2 ELSE 0,
                 board |-> a.board, nextPiece |-> a.nextPiece, serial |-> h.serial]
       IN  CASE a.variant = "page" -> animateStep(a, d, an, c, k)
             [] a.variant = "hook" -> Out(a, d, <<c>>, 0, "dropping")
             [] OTHER ->
                  LET droppedPiece == [a.currentPiece EXCEPT !.y = finalY]
                      r == lockClassic(a, d, an, droppedPiece, dropDistance * 2, k,
                                       h.serial)
                  IN  IF r.res = "locked"
                      THEN [r EXCEPT !.hist.bonus = Append(@, h.serial)]
                      ELSE r

\* The rotation: rotatePiece of the hook, and the ArrowUp case of the key
\* handlers of page.tsx and of the classic variant.
rotatePadded(a, h, an) ==
  LET rotatedPiece == rotatePiecePadded(a.currentPiece)
  IN  IF /\ a.variant = "hook"
         /\ (a.currentPiece = NoPiece \/ a.gameOver \/ a.isPaused \/ a.isClearing)
      THEN Out(a, h, an, 0, "noop")
      ELSE IF rotatedPiece # NoPiece /\ ~checkCollision(rotatedPiece, a.board, 0, 0)
      THEN Out([a EXCEPT !.currentPiece = rotatedPiece], h, an, 0, "rotated")
      ELSE Out(a, h, an, 0, "rejected")

\* The line clear animation effect (page.tsx lines 443-475, hook lines
\* 1140-1190): a frame sets animationColumn one further; the render with
\* animationColumn = BOARD_WIDTH runs the effect's other branch, which
\* removes clearingRows from the board, scores them, and promotes the next
\* piece unless the game is over or paused.
lineClearEffect(a, h, an, k) ==
  LET col == a.animationColumn + 1
      b == [a EXCEPT !.animationColumn = col]
  IN  IF col < BOARD_WIDTH
      THEN Out(b, h, an, 0, "frame")
      ELSE LET newBoardAfterClear == removeAndShiftLines(b.board, b.clearingRows)
               c == [ScoreLines(b, Cardinality(b.clearingRows))
                       EXCEPT !.board = newBoardAfterClear, !.clearingRows = {},
                              !.animationColumn = -1, !.isClearing = FALSE]
           IN  IF ~b.gameOver /\ ~b.isPaused
               THEN Out([c EXCEPT !.currentPiece = b.nextPiece,
                                  !.nextPiece = createRandomTetromino(k)],
                        [h EXCEPT !.serial = @ + 1, !.locked = NoPiece], an, 1,
                        "cleared")
               ELSE Out(c, [h EXCEPT !.locked = NoPiece], an, 0, "cleared")

\* The first line of the keydown handlers.
KeyIgnored(a) ==
  ~a.gameStarted \/ a.gameOver \/ (a.variant = "hook" /\ a.isClearing)

\* One keydown event.
handleKeyPadded(a, h, an, key, k) ==
  IF KeyIgnored(a) THEN Out(a, h, an, 0, "ignored")
  ELSE CASE key = "ArrowLeft"  -> movePiecePadded(a, h, an, "left", k)
         [] key = "ArrowRight" -> movePiecePadded(a, h, an, "right", k)
         [] key = "ArrowDown"  -> movePiecePadded(a, h, an, "down", k)
         [] key = "ArrowUp"    -> rotatePadded(a, h, an)
         [] key = " "          -> hardDropPadded(a, h, an, k)
         [] key = "p"          -> Out([a EXCEPT !.isPaused = ~@], h, an, 0, "toggled")

\* The scripted games of the padded variants: the variant, the events (S
\* initGame, L / R / D / U / X / P the keys, B the ROT button, T the game
\* loop's timer, A the timer or frame of a hard drop animation, F a frame of
\* the line clear animation) and the keys that createRandomTetromino draws,
\* in order.
\* PlanRow: two I pieces and an O piece are moved down to fill the bottom
\* row.  PlanStackO: O pieces are hard-dropped on one another to the top.
\* PlanLeftStack: an I piece and O pieces are stacked against the left wall.
\* PlanDoubleDrop: the O piece is moved down twelve rows, then the hard drop
\* key is pressed twice in a row.
PlanRow(v) ==
  [variant |-> v,
   tokens |-> <<"S">> \o Rep("L", 3) \o Rep("D", 19) \o <<"R">> \o Rep("D", 19) \o
              Rep("R", 4) \o Rep("D", 19) \o Rep("F", 11),
   deals |-> <<"I", "I", "O", "T", "S">>]

PlanStackO(v) ==
  [variant |-> v,
   tokens |-> <<"S">> \o Cycle(<<"X", "A">>, 11),
   deals |-> Rep("O", 12)]

PlanLeftStack(v) ==
  [variant |-> v,
   tokens |-> <<"S">> \o Rep("L", 3) \o <<"X">> \o Cycle(Rep("L", 4) \o <<"X">>, 9),
   deals |-> <<"I">> \o Rep("O", 10)]

PlanDoubleDrop(v) ==
  [variant |-> v,
   tokens |-> <<"S">> \o Rep("D", 12) \o <<"X", "X">> \o Rep("A", 11),
   deals |-> <<"O", "T", "I", "J">>]

\* A hard drop of d rows in page.tsx and the timeouts of its animation.
DropAnimated(d) == <<"X">> \o Rep("A", d)

\* PlanDropRow: as PlanRow, the three pieces being hard-dropped.
PlanDropRow(v) ==
  [variant |-> v,
   tokens |-> <<"S">> \o Rep("L", 3) \o DropAnimated(18) \o <<"R">> \o DropAnimated(18) \o
              Rep("R", 4) \o DropAnimated(18) \o Rep("F", 11),
   deals |-> <<"I", "I", "O", "T", "S">>]

\* PlanDropOver: an I piece and nine O pieces are hard-dropped where they
\* spawn; the last one falls one row.
PlanDropOver(v) ==
  [variant |-> v,
   tokens |-> <<"S">> \o DropAnimated(18) \o DropAnimated(17) \o DropAnimated(15) \o
              DropAnimated(13) \o DropAnimated(11) \o DropAnimated(9) \o
              DropAnimated(7) \o DropAnimated(5) \o DropAnimated(3) \o DropAnimated(1),
   deals |-> <<"I">> \o Rep("O", 10)]

\* PlanPause: the game is paused and every key is pressed; in page.tsx the
\* ROT button is touched too.
PlanPause(v) ==
  [variant |-> v,
   tokens |-> <<"S", "D", "D", "P", "L", "R", "D", "X", "U">> \o
              (IF v = "page" THEN <<"B">> ELSE <<>>),
   deals |-> <<"T", "I">>]

\* PlanPauseClear: as PlanRow, the pause key being pressed while the line
\* clear animation runs.
PlanPauseClear(v) ==
  [variant |-> v,
   tokens |-> <<"S">> \o Rep("L", 3) \o Rep("D", 19) \o <<"R">> \o Rep("D", 19) \o
              Rep("R", 4) \o Rep("D", 19) \o Rep("F", 5) \o <<"P">> \o Rep("F", 6),
   deals |-> <<"I", "I", "O", "T">>]

PaddedPlans ==
  << PlanRow("page"), PlanRow("hook"), PlanRow("classic"),
     PlanStackO("hook"), PlanLeftStack("classic"), PlanDoubleDrop("page"),
     PlanDropRow("page"), PlanDropOver("page"),
     PlanPause("page"), PlanPause("classic"), PlanPauseClear("page") >>

MaxPaddedFree == 1

\* One event has happened, in which the keys ks were drawn.  It was a step of
\* the plan if it is the plan's next event and the keys are the plan's next
\* deals; otherwise the player has left the plan.
AdvancePadded(tok, ks) ==
  LET p == PaddedPlans[plan]
      on == /\ free = 0
            /\ ip < Len(p.tokens)
            /\ p.tokens[ip + 1] = tok
            /\ hist.dealt + Len(ks) <= Len(p.deals)
            /\ ks = SubSeq(p.deals, hist.dealt + 1, hist.dealt + Len(ks))
  IN  /\ on \/ free < MaxPaddedFree
      /\ plan' = plan
      /\ ip' = IF on THEN ip + 1 ELSE ip
      /\ free' = IF on THEN free ELSE free + 1

\* The player may cause the event tok: it is the plan's next event, or the
\* player may still leave the plan.
Happens(tok) ==
  \/ free < MaxPaddedFree
  \/ /\ free = 0
     /\ ip < Len(PaddedPlans[plan].tokens)
     /\ PaddedPlans[plan].tokens[ip + 1] = tok

\* The event tok has run a handler with result r, the keys drawn being the
\* first r.drew of ks.
Commit(tok, result, ks) ==
  \E r \in {result} :
      /\ app' = r.app
      /\ hist' = [r.hist EXCEPT !.dealt = @ + r.drew]
      /\ anims' = r.anims
      /\ last' = [op |-> tok, res |-> r.res]
      /\ AdvancePadded(tok, SubSeq(ks, 1, r.drew))
      /\ UNCHANGED <<gameVars, touchVars, histVars, pureVars>>

InitPadded ==
  /\ InitGame
  /\ plan \in 1..Len(PaddedPlans)
  /\ app = InitApp(PaddedPlans[plan].variant)
  /\ anims = <<>>
  /\ hist = NoHist
  /\ rot = NoRot
  /\ clr = NoClr
  /\ ivl = NoIvl

\* The "Start Game" and "Play Again" buttons, rendered while the game is
\* not started or is over.
StartPadded ==
  /\ Happens("S")
  /\ ~app.gameStarted \/ app.gameOver
  /\ \E k1 \in KeySet : \E k2 \in KeySet :
       Commit("S", initGame(app, hist, anims, k1, k2), <<k1, k2>>)

\* The keydown listener of the mounted component.  A handler is run with
\* every key that createRandomTetromino may return if it draws a piece, and
\* once if it draws none.
LeftPadded ==
  /\ Happens("L")
  /\ app.variant \in Variants
  /\ \E r \in {handleKeyPadded(app, hist, anims, "ArrowLeft", "I")} :
       IF r.drew = 0 THEN Commit("L", r, <<>>)
       ELSE \E k \in KeySet :
              Commit("L", handleKeyPadded(app, hist, anims, "ArrowLeft", k), <<k>>)

RightPadded ==
  /\ Happens("R")
  /\ app.variant \in Variants
  /\ \E r \in {handleKeyPadded(app, hist, anims, "ArrowRight", "I")} :
       IF r.drew = 0 THEN Commit("R", r, <<>>)
       ELSE \E k \in KeySet :
              Commit("R", handleKeyPadded(app, hist, anims, "ArrowRight", k), <<k>>)

DownPadded ==
  /\ Happens("D")
  /\ app.variant \in Variants
  /\ \E r \in {handleKeyPadded(app, hist, anims, "ArrowDown", "I")} :
       IF r.drew = 0 THEN Commit("D", r, <<>>)
       ELSE \E k \in KeySet :
              Commit("D", handleKeyPadded(app, hist, anims, "ArrowDown", k), <<k>>)

RotatePadded ==
  /\ Happens("U")
  /\ app.variant \in Variants
  /\ \E r \in {handleKeyPadded(app, hist, anims, "ArrowUp", "I")} :
       IF r.drew = 0 THEN Commit("U", r, <<>>)
       ELSE \E k \in KeySet :
              Commit("U", handleKeyPadded(app, hist, anims, "ArrowUp", k), <<k>>)

DropPadded ==
  /\ Happens("X")
  /\ app.variant \in Variants
  /\ \E r \in {handleKeyPadded(app, hist, anims, " ", "I")} :
       IF r.drew = 0 THEN Commit("X", r, <<>>)
       ELSE \E k \in KeySet :
              Commit("X", handleKeyPadded(app, hist, anims, " ", k), <<k>>)

PausePadded ==
  /\ Happens("P")
  /\ app.variant \in Variants
  /\ \E r \in {handleKeyPadded(app, hist, anims, "p", "I")} :
       IF r.drew = 0 THEN Commit("P", r, <<>>)
       ELSE \E k \in KeySet :
              Commit("P", handleKeyPadded(app, hist, anims, "p", k), <<k>>)

\* The ROT button of page.tsx: onTouchStart runs the rotation of the
\* ArrowUp case, without the key handler's first line.
RotButtonPadded ==
  /\ Happens("B")
  /\ app.variant = "page"
  /\ Commit("B", rotatePadded(app, hist, anims), <<>>)

\* The game loop's interval, set while the game is started, not over and
\* not paused; the hook's gameLoop does nothing while isClearing.
TickPadded ==
  /\ Happens("T")
  /\ app.gameStarted /\ ~app.gameOver /\ ~app.isPaused
  /\ ~(app.variant = "hook" /\ app.isClearing)
  /\ \E r \in {movePiecePadded(app, hist, anims, "down", "I")} :
       IF r.drew = 0 THEN Commit("T", r, <<>>)
       ELSE \E k \in KeySet :
              Commit("T", movePiecePadded(app, hist, anims, "down", k), <<k>>)

\* The timer of a pending animateStep fires (page.tsx), or the last frame of
\* the pending animateDrop is run (hook).
AnimatePadded ==
  /\ Happens("A")
  /\ \E i \in 1..Len(anims) :
       LET c == anims[i]
           rest == SubSeq(anims, 1, i - 1) \o SubSeq(anims, i + 1, Len(anims))
           run(k) == IF app.variant = "page" THEN animateStep(app, hist, rest, c, k)
                                             ELSE animateDrop(app, hist, rest, c, k)
       IN  \E r \in {run("I")} :
             IF r.drew = 0 THEN Commit("A", r, <<>>)
             ELSE \E k \in KeySet : Commit("A", run(k), <<k>>)

\* A frame of the line clear animation.
ClearFramePadded ==
  /\ Happens("F")
  /\ app.isClearing
  /\ app.animationColumn < BOARD_WIDTH
  /\ \E r \in {lineClearEffect(app, hist, anims, "I")} :
       IF r.drew = 0 THEN Commit("F", r, <<>>)
       ELSE \E k \in KeySet :
              Commit("F", lineClearEffect(app, hist, anims, k), <<k>>)

NextPadded ==
  \/ StartPadded
  \/ LeftPadded
  \/ RightPadded
  \/ DownPadded
  \/ RotatePadded
  \/ DropPadded
  \/ PausePadded
  \/ RotButtonPadded
  \/ TickPadded
  \/ AnimatePadded
  \/ ClearFramePadded

SpecPadded == InitPadded /\ [][NextPadded]_vars


\* ------------------------------------------------------------------------
\* The line clear animation of page.tsx with events that no plan limits:
\* while isClearing is true the animation's timer fires, and ArrowDown and
\* the game loop's timer arrive in any number.  The games are the plans of
\* page.tsx.
\* ------------------------------------------------------------------------

\* The handler's result is committed; the event is none of the plan's.
CommitUnplanned(tok, result) ==
  \E r \in {result} :
      /\ app' = r.app
      /\ hist' = [r.hist EXCEPT !.dealt = @ + r.drew]
      /\ anims' = r.anims
      /\ last' = [op |-> tok, res |-> r.res]
      /\ UNCHANGED <<gameVars, touchVars, envVars, histVars, pureVars>>

InitAnim ==
  /\ InitPadded
  /\ PaddedPlans[plan].variant = "page"

\* The 15 ms timer of the line clear effect fires, or the render with
\* animationColumn = BOARD_WIDTH runs the effect's second branch.
FrameAnim ==
  /\ app.variant = "page"
  /\ app.isClearing
  /\ app.animationColumn < BOARD_WIDTH
  /\ \E k \in KeySet : CommitUnplanned("F", lineClearEffect(app, hist, anims, k))

\* ArrowDown is pressed while the animation runs.
DownAnim ==
  /\ app.variant = "page"
  /\ app.isClearing
  /\ \E k \in KeySet : CommitUnplanned("D", handleKeyPadded(app, hist, anims, "ArrowDown", k))

\* The game loop's interval fires while the animation runs.
TickAnim ==
  /\ app.variant = "page"
  /\ app.isClearing
  /\ app.gameStarted /\ ~app.gameOver /\ ~app.isPaused
  /\ \E k \in KeySet : CommitUnplanned("T", movePiecePadded(app, hist, anims, "down", k))

\* The player follows the plan; only the events that arrive during the
\* animation are not of the plan.
NextAnim ==
  \/ NextPadded /\ free' = 0
  \/ FrameAnim
  \/ DownAnim
  \/ TickAnim

\* The effect sets its timer in every render with isClearing true and
\* animationColumn below BOARD_WIDTH, so the timer keeps firing.
SpecAnim == InitAnim /\ [][NextAnim]_vars /\ WF_vars(FrameAnim)


\* ------------------------------------------------------------------------
\* The first piece of a game of the bag variant, played without a script:
\* the keys ArrowLeft, ArrowRight, ArrowDown and ArrowUp in any number and
\* order, and the game loop's timer, which fires as long as the game runs
\* (lines 448-458).  The pause key and the hard drop key are not pressed.
\* ------------------------------------------------------------------------

\* The score up to which ArrowDown is pressed.
MaxLiveScore == 3

InitLive ==
  /\ InitGame
  /\ IdlePadded
  /\ plan = 0
  /\ rot = NoRot
  /\ clr = NoClr
  /\ ivl = NoIvl

\* The game runs and its first piece is the active piece.
FirstPieceActive == Running /\ Len(actives) = 1

LiveStart ==
  /\ ~gameStarted
  /\ actives = <<>>
  /\ startGame
  /\ Observe
  /\ UNCHANGED <<envVars, touchVars, pureVars, paddedVars>>

LiveLeft ==
  /\ FirstPieceActive
  /\ handleKeyPress("ArrowLeft")
  /\ Observe
  /\ UNCHANGED <<envVars, touchVars, pureVars, paddedVars>>

LiveRight ==
  /\ FirstPieceActive
  /\ handleKeyPress("ArrowRight")
  /\ Observe
  /\ UNCHANGED <<envVars, touchVars, pureVars, paddedVars>>

LiveDown ==
  /\ FirstPieceActive
  /\ score < MaxLiveScore
  /\ handleKeyPress("ArrowDown")
  /\ Observe
  /\ UNCHANGED <<envVars, touchVars, pureVars, paddedVars>>

LiveRotate ==
  /\ FirstPieceActive
  /\ handleKeyPress("ArrowUp")
  /\ Observe
  /\ UNCHANGED <<envVars, touchVars, pureVars, paddedVars>>

\* The timeout of the game loop effect: movePiece(0, 1).
LiveTick ==
  /\ FirstPieceActive
  /\ movePiece(0, 1, FALSE)
  /\ Observe
  /\ UNCHANGED <<envVars, touchVars, pureVars, paddedVars>>

NextLive ==
  \/ LiveStart
  \/ LiveLeft
  \/ LiveRight
  \/ LiveDown
  \/ LiveRotate
  \/ LiveTick

\* The effect sets a new timeout after every render of a running game, so
\* the timer keeps firing while it is enabled.
SpecLive == InitLive /\ [][NextLive]_vars /\ WF_vars(LiveTick)


\* ------------------------------------------------------------------------
\* Vocabulary of the properties.  These definitions restate what the code's
\* functions are meant to compute in terms of sets of cells, so that a
\* property does not merely repeat the definition it is about.
\* ------------------------------------------------------------------------

\* The occupied sub-cells of a piece at pos, as board coordinates <<x, y>>.
Cells(piece, pos) ==
  { <<pos.x + (rc[2] - 1), pos.y + (rc[1] - 1)>> :
      rc \in { q \in (1..Len(piece.shape)) \X (1..4) :
                 /\ q[2] <= Len(piece.shape[q[1]])
                 /\ piece.shape[q[1]][q[2]] = 1 } }

OnBoard(c) == c[1] \in 0..(BOARD_WIDTH - 1) /\ c[2] \in 0..(BOARD_HEIGHT - 1)

Occupied(b, c) == OnBoard(c) /\ b[c[2] + 1][c[1] + 1] # EMPTY

\* Some cell of the piece lies on an occupied board cell.
Overlaps(b, piece, pos) == \E c \in Cells(piece, pos) : Occupied(b, c)

\* The piece cannot be at pos: a cell is beside or below the board, or on an
\* occupied cell.
Collides(b, piece, pos) ==
  \E c \in Cells(piece, pos) :
    c[1] < 0 \/ c[1] >= BOARD_WIDTH \/ c[2] >= BOARD_HEIGHT \/ Occupied(b, c)

Shifted(pos, dx, dy) == [x |-> pos.x + dx, y |-> pos.y + dy]

\* The board with the piece's cells written to it.
Written(b, piece, pos) ==
  LET cs == Cells(piece, pos)
  IN  [y \in 1..BOARD_HEIGHT |->
        [x \in 1..BOARD_WIDTH |->
          IF <<x - 1, y - 1>> \in cs THEN piece.color ELSE b[y][x]]]

FullRows(b) == { y \in 1..Len(b) : \A x \in 1..Len(b[y]) : b[y][x] # EMPTY }

\* out is b with its full rows removed: as many empty rows on top, then the
\* other rows of b in their order.
IsCleared(b, out) ==
  LET F == FullRows(b)
      N == Cardinality(F)
  IN  /\ Len(out) = BOARD_HEIGHT
      /\ \A y \in 1..BOARD_HEIGHT : Len(out[y]) = BOARD_WIDTH
      /\ \A y \in 1..N : out[y] = EmptyRow
      /\ \A y \in (1..Len(b)) \ F :
           out[N + Cardinality({ k \in 1..y : k \notin F })] = b[y]

\* The scoring table of the spec: 1 row 100, 2 rows 300, 3 rows 500, 4 rows 800.
Table(n) == IF n \in 1..4 THEN <<100, 300, 500, 800>>[n] ELSE 0

Templates == { TETROMINOS[k] : k \in KeySet }

\* A call is made on a game that is running with a piece in play.
InPlay == currentPiece # NoPiece /\ ~gameOver /\ ~isPaused

\* The piece touches the stack: a board cell beside or below one of its cells
\* is occupied.
Touches ==
  \E c \in Cells(currentPiece, currentPosition) :
    \E d \in { <<1, 0>>, <<-1, 0>>, <<0, 1>> } :
      Occupied(board, <<c[1] + d[1], c[2] + d[2]>>)

\* The step is the lock of the piece in play at position pos: the board is
\* written and cleared, the next piece is promoted to its spawn position, one
\* new next piece is drawn, and the game is over iff the promoted piece
\* collides there.
LockedAt(pos) ==
  /\ IsCleared(Written(board, currentPiece, pos), board')
  /\ currentPiece' = nextPiece
  /\ currentPosition' =
       [x |-> (BOARD_WIDTH - Len(nextPiece.shape[1])) \div 2, y |-> 0]
  /\ nextPiece' \in Templates
  /\ IF bag = <<>>
     THEN Len(bag') = Len(TETROMINO_KEYS) - 1
          /\ \A i \in 1..Len(bag') : bag'[i] # nextPiece'.key
     ELSE bag' = SubSeq(bag, 1, Len(bag) - 1) /\ nextPiece'.key = bag[Len(bag)]
  /\ gameOver' = Collides(board', currentPiece', currentPosition')

\* ------------------------------------------------------------------------
\* Claims
\* ------------------------------------------------------------------------

\* C1: after a movePiece or rotatePieceHandler call that moved or turned the
\* active piece, no occupied sub-cell of the piece lies on an occupied board
\* cell.
C1_NoOverlapAfterMoveOrRotate ==
  last.res \in {"moved", "rotated"} => ~Overlaps(board, currentPiece, currentPosition)

\* A rotation accepted with a kick has left the piece against the stack.
C1_Witness ==
  /\ last.res = "rotated"
  /\ last.kick > 1
  /\ Touches

\* C2 (as claimed): in every running state every occupied sub-cell of the
\* active piece lies inside columns 0..9 and rows 0..19.
C2_ActiveInsideBoard ==
  (gameStarted /\ ~gameOver /\ ~isPaused) =>
    \A c \in Cells(currentPiece, currentPosition) : OnBoard(c)

\* C3: a movePiece(0, 1) whose target position collides locks the piece at
\* its current position: the board is that board with the piece written and
\* the full rows removed, the next piece is promoted to its spawn position,
\* a new next piece is drawn, and gameOver becomes true iff the promoted
\* piece collides with the cleared board.
C3_LockByMoveDown ==
  [][ ( /\ last'.op = "move" /\ last'.dx = 0 /\ last'.dy = 1
        /\ InPlay
        /\ Collides(board, currentPiece, Shifted(currentPosition, 0, 1)) )
      => LockedAt(currentPosition) ]_vars

\* The timer has locked a piece and the promoted piece does not fit: game over.
C3_Witness ==
  /\ last.op = "move"
  /\ last.res = "locked"
  /\ gameOver
  /\ Collides(board, currentPiece, currentPosition)

\* C4: rotatePieceHandler commits the rotated shape at the first of the
\* offsets (0,0), (-1,0), (+1,0), (0,-1), (-1,-1), (+1,-1) at which it does
\* not collide; if it collides at all six, shape and position stay.
C4_FirstKickWins ==
  [][ (last'.op = "rotate" /\ InPlay) =>
      LET turned == [currentPiece EXCEPT !.shape = RotateShape(currentPiece.shape)]
          offsets == << <<0, 0>>, <<-1, 0>>, <<1, 0>>, <<0, -1>>, <<-1, -1>>, <<1, -1>> >>
          At(k) == Shifted(currentPosition, offsets[k][1], offsets[k][2])
          Fits(k) == ~Collides(board, turned, At(k))
      IN  IF \E k \in 1..6 : Fits(k)
          THEN \E k \in 1..6 :
                 /\ Fits(k)
                 /\ \A j \in 1..(k - 1) : ~Fits(j)
                 /\ currentPiece' = turned
                 /\ currentPosition' = At(k)
          ELSE currentPiece' = currentPiece /\ currentPosition' = currentPosition ]_vars

\* A rotation was accepted at the last offset, (+1, -1).
C4_Witness ==
  /\ last.op = "rotate"
  /\ last.res = "rotated"
  /\ last.kick = 6

\* C5: for each of the seven templates, tight or padded, four applications
\* of the rotation give back the template's grid.
C5_FourTurnsIdentity ==
  (rot.variant # "none" /\ rot.n % 4 = 0) => rot.shape = Template(rot.variant, rot.key).shape

\* The padded I has been turned four times.
C5_Witness ==
  /\ rot.n = 4
  /\ rot.variant = "padded"
  /\ rot.key = "I"

\* C6: dropPiece lets the piece fall the largest distance d at which it is
\* valid at every offset 1..d, locks it there in the same call, and adds
\* 2 * d plus the points of the rows cleared (times the level) to the score.
C6_HardDrop ==
  [][ (last'.op = "drop" /\ InPlay) =>
      LET cs == Cells(currentPiece, currentPosition)
          Free(k) == \A c \in cs :
                       /\ c[1] >= 0 /\ c[1] < BOARD_WIDTH /\ c[2] + k < BOARD_HEIGHT
                       /\ ~Occupied(board, <<c[1], c[2] + k>>)
          d == CHOOSE k \in 0..BOARD_HEIGHT :
                 ~Free(k + 1) /\ (\A j \in 1..k : Free(j))
          pos == Shifted(currentPosition, 0, d)
          n == Cardinality(FullRows(Written(board, currentPiece, pos)))
      IN  /\ score' = score + 2 * d + Table(n) * level
          /\ LockedAt(pos) ]_vars

\* A hard drop fell some rows and completed a row.
C6_Witness ==
  /\ last.op = "drop"
  /\ last.res = "locked"
  /\ last.dist > 0
  /\ last.cleared > 0

\* C7 (as claimed): a successful move changes only the active piece's
\* position.
C7_MoveChangesOnlyPosition ==
  [][ ( /\ last'.op = "move"
        /\ InPlay
        /\ ~Collides(board, currentPiece,
                     Shifted(currentPosition, last'.dx, last'.dy)) )
      => /\ currentPosition' = Shifted(currentPosition, last'.dx, last'.dy)
         /\ UNCHANGED <<board, currentPiece, nextPiece, score, level, lines,
                        gameOver, isPaused, gameStarted, bag>> ]_vars

\* C7 (amended): a successful move changes only the active piece's position,
\* and the score by 1 when it is the player's move down (the soft drop).
C7_MoveChangesPositionAndSoftDrop ==
  [][ ( /\ last'.op = "move"
        /\ InPlay
        /\ ~Collides(board, currentPiece,
                     Shifted(currentPosition, last'.dx, last'.dy)) )
      => /\ currentPosition' = Shifted(currentPosition, last'.dx, last'.dy)
         /\ score' = score + (IF last'.player /\ last'.dy = 1 THEN 1 ELSE 0)
         /\ UNCHANGED <<board, currentPiece, nextPiece, level, lines,
                        gameOver, isPaused, gameStarted, bag>> ]_vars

\* The player has moved the piece down one row.
C7_Witness ==
  /\ last.op = "move"
  /\ last.res = "moved"
  /\ last.player
  /\ last.dy = 1
  /\ score > 0

\* C8: a left or right move whose target collides changes nothing.
C8_BlockedSideMoveIsNoOp ==
  [][ ( /\ last'.op = "move" /\ last'.dx # 0 /\ last'.dy = 0
        /\ InPlay
        /\ Collides(board, currentPiece, Shifted(currentPosition, last'.dx, 0)) )
      => UNCHANGED gameVars ]_vars

\* A side move was blocked while the piece rested on the stack or the floor.
C8_Witness ==
  /\ last.op = "move"
  /\ last.res = "blocked"
  /\ InPlay
  /\ Collides(board, currentPiece, Shifted(currentPosition, 0, 1))

\* C9: a timer tick adds no distance bonus: a tick that moves the piece
\* leaves the score, and a tick that locks it adds the table's points for
\* the rows it completes (none for no row) times the level.
C9_TickScore ==
  [][ ( /\ last'.op = "move" /\ ~last'.player /\ last'.dx = 0 /\ last'.dy = 1
        /\ InPlay )
      => IF ~Collides(board, currentPiece, Shifted(currentPosition, 0, 1))
         THEN score' = score
         ELSE score' = score
                + Table(Cardinality(FullRows(Written(board, currentPiece,
                                                     currentPosition)))) * level ]_vars

\* The timer has locked a piece that completed four rows.
C9_Witness ==
  /\ last.op = "move"
  /\ ~last.player
  /\ last.res = "locked"
  /\ last.cleared = 4

\* C10: clearLines returns 20 rows of 10 cells with no full row: N empty
\* rows, then the input's rows that are not full in their order, where N is
\* the number of full rows of the input, and it reports N.
C10_ClearLines ==
  clr.done =>
    /\ IsCleared(clr.input, clr.out)
    /\ FullRows(clr.out) = {}
    /\ clr.clearedLines = Cardinality(FullRows(clr.input))

\* Four full rows were removed from under rows that were kept.
C10_Witness ==
  /\ clr.done
  /\ clr.clearedLines = 4
  /\ clr.input[BOARD_HEIGHT - 4] # EmptyRow
  /\ clr.out[BOARD_HEIGHT] = clr.input[BOARD_HEIGHT - 4]

\* C11: a lock that completes n rows adds, beside the distance bonus of a
\* hard drop, exactly 100, 300, 500 or 800 points for n = 1, 2, 3, 4 times the
\* level in effect before the lock, and nothing for n = 0.
C11_LineClearPoints ==
  [][ (last'.res = "locked" /\ InPlay) =>
      LET pos == Shifted(currentPosition, 0, last'.dist)
          n == Cardinality(FullRows(Written(board, currentPiece, pos)))
      IN  /\ n \in 0..4
          /\ score' = score + 2 * last'.dist + Table(n) * level ]_vars

\* A hard drop completed rows and took the game from level 1 to level 2.
C11_Witness ==
  /\ last.op = "drop"
  /\ last.res = "locked"
  /\ last.cleared > 0
  /\ level = 2
  /\ lines - last.cleared < 10

\* C12: level = floor(lines / 10) + 1 in every state; a lock adds to lines
\* the number of rows it removes and no call but startGame changes lines
\* otherwise; the level never decreases except by startGame; and the level
\* at 10 lines is greater than the level at 9 lines.
C12_LevelFollowsLines ==
  [][ /\ level = (lines \div 10) + 1
      /\ level' = (lines' \div 10) + 1
      /\ (last'.res = "locked" /\ InPlay) =>
           lines' = lines + Cardinality(FullRows(Written(board, currentPiece,
                                          Shifted(currentPosition, 0, last'.dist))))
      /\ last'.res \notin {"locked", "started"} => lines' = lines
      /\ last'.op # "start" => level' >= level
      /\ calcLevel(10) > calcLevel(9) ]_vars

\* Ten lines or more have been cleared and the game is at level 2.
C12_Witness ==
  /\ lines >= 10
  /\ level = 2
  /\ gameStarted

\* C13: the score is a natural number in every state, and no call other
\* than startGame (tick, move, rotate, hard drop, pause, a key that is
\* ignored) ever lowers it.
C13_ScoreNeverDecreases ==
  [][ /\ score \in Nat
      /\ score' \in Nat
      /\ last'.op # "start" => score' >= score ]_vars

\* A lock by the timer completed rows while the score was already positive:
\* the score has grown by soft drops, hard drops and clears.
C13_Witness ==
  /\ last.op = "move"
  /\ ~last.player
  /\ last.res = "locked"
  /\ last.cleared > 0
  /\ score > LinePoints(last.cleared) * level

\* C14: gameOver becomes true only in a step taken while the game is
\* started and not paused; while gameOver is true every event other than
\* startGame leaves the game state unchanged, so only startGame ends the
\* game-over state; gameOver and isPaused are never both true.
C14_GameOverStateMachine ==
  [][ /\ (gameOver' /\ ~gameOver) => (gameStarted /\ ~isPaused)
      /\ (gameOver /\ last'.op # "start") => UNCHANGED gameVars
      /\ (gameOver /\ ~gameOver') => last'.op = "start"
      /\ ~(gameOver /\ isPaused)
      /\ ~(gameOver' /\ isPaused') ]_vars

\* The game is over, and a key pressed since then was ignored.
C14_Witness ==
  /\ gameOver
  /\ ~gameStarted
  /\ last.op = "key"
  /\ last.res = "ignored"

\* C15: while the game is paused, and before the first start, a move, a
\* rotation, a hard drop or a timer tick leaves the whole game state
\* unchanged.
C15_NoEffectWhilePausedOrIdle ==
  [][ ( /\ isPaused \/ currentPiece = NoPiece
        /\ last'.op \in {"move", "rotate", "drop", "key"} ) =>
      UNCHANGED gameVars ]_vars

\* A hard drop was asked for while the game was paused, with a piece in the
\* air.
C15_Witness ==
  /\ isPaused
  /\ last.op = "drop"
  /\ last.res = "noop"
  /\ ~Collides(board, currentPiece, Shifted(currentPosition, 0, 1))

\* C16: togglePause with gameOver false flips isPaused and changes nothing
\* else, and the second of two consecutive calls restores the state that
\* preceded the first; with gameOver true it changes nothing.
C16_TogglePause ==
  [][ last'.op = "pause" =>
      /\ IF gameOver
         THEN UNCHANGED gameVars
         ELSE /\ isPaused' = ~isPaused
              /\ UNCHANGED <<board, currentPiece, currentPosition, nextPiece, score,
                             level, lines, gameOver, gameStarted, bag>>
      /\ last.op = "pause" => gameVars' = snap.before ]_vars

\* togglePause was called twice in a row during a game with a score.
C16_Witness ==
  /\ last.op = "pause"
  /\ snap.prev = "pause"
  /\ ~isPaused
  /\ score > 0

\* C17: after startGame, at the first start and at a restart alike, the
\* board has 20 rows of 10 empty cells, score = 0, lines = 0, level = 1,
\* gameStarted is true, isPaused and gameOver are false, the active piece is
\* a template at its spawn position (centred, row 0), and there is a next
\* piece.
C17_StartGame ==
  [][ last'.op = "start" =>
      /\ Len(board') = 20
      /\ \A y \in 1..20 : Len(board'[y]) = 10 /\ \A x \in 1..10 : board'[y][x] = EMPTY
      /\ score' = 0 /\ lines' = 0 /\ level' = 1
      /\ gameStarted' /\ ~isPaused' /\ ~gameOver'
      /\ currentPiece' \in Templates
      /\ currentPosition' = [x |-> (10 - Len(currentPiece'.shape[1])) \div 2, y |-> 0]
      /\ nextPiece' \in Templates ]_vars

\* A game was started after an earlier game, played by a script, was over.
C17_Witness ==
  /\ last.op = "start"
  /\ ip > 1
  /\ gameStarted
  /\ board = EmptyBoard

\* C18 (as claimed): after startGame the active piece and the next piece are
\* the pieces drawn from the generator during that call, after the bag was
\* emptied: the draws of the call are exactly the active piece, then the next
\* piece; none is discarded, no piece comes from the game before.
C18_StartUsesItsOwnDraws ==
  last.op = "start" => draws = <<currentPiece.key, nextPiece.key>>

\* C19: counted from the empty bag that startGame leaves, the draws
\* 7k+1 .. 7k+7 of createRandomPiece are seven different templates, for
\* every k (the last block may be incomplete), and between two draws of the
\* same template there are at most 12 other draws.
C19_BagBlocks ==
  /\ \A i \in 1..Len(draws) : draws[i] \in {"I", "O", "T", "S", "Z", "J", "L"}
  /\ \A i \in 1..Len(draws) : \A j \in (i + 1)..Len(draws) :
       ((i - 1) \div 7 = (j - 1) \div 7) => draws[i] # draws[j]
  /\ \A i \in 1..Len(draws) : \A j \in (i + 1)..Len(draws) :
       (draws[i] = draws[j] /\ \A m \in (i + 1)..(j - 1) : draws[m] # draws[i])
         => j - i - 1 <= 12

\* The first and the fourteenth draw are the same template: twelve other
\* draws lie between two draws of it.
C19_Witness ==
  /\ Len(draws) >= 14
  /\ draws[1] = draws[14]

\* C20 (as claimed): of the pieces that become the active piece in a game,
\* the first seven are seven different templates, and so is every later
\* block of seven (pieces 7k+1 .. 7k+7).
C20_ActiveBlocks ==
  \A i \in 1..Len(actives) : \A j \in (i + 1)..Len(actives) :
    ((i - 1) \div 7 = (j - 1) \div 7) => actives[i] # actives[j]

\* C21: at every lock the piece that becomes active is the piece that was
\* shown as nextPiece before the lock (same shape, same color), at
\* x = floor((10 - width) / 2), y = 0, and nextPiece is replaced by one new
\* draw of the generator: one key more is popped from the bag, and it is the
\* new next piece's.
C21_LockPromotesNextPiece ==
  [][ (last'.res = "locked" /\ InPlay)
      => /\ currentPiece'.shape = nextPiece.shape
         /\ currentPiece'.color = nextPiece.color
         /\ currentPosition'.x = (10 - Len(nextPiece.shape[1])) \div 2
         /\ currentPosition'.y = 0
         /\ Len(draws') = Len(draws) + 1
         /\ SubSeq(draws', 1, Len(draws)) = draws
         /\ nextPiece' = TETROMINOS[draws'[Len(draws')]] ]_vars

\* A lock has promoted the next piece, and the draw of the new next piece
\* was the first one of a refilled bag.
C21_Witness ==
  /\ last.res = "locked"
  /\ ~gameOver
  /\ Len(draws) > Len(TETROMINO_KEYS)
  /\ Len(bag) = Len(TETROMINO_KEYS) - 1
  /\ currentPiece.key = draws[Len(draws) - 1]

\* C22: when the piece promoted by a lock collides at its spawn position,
\* gameOver is true after that same step and the board is the board before
\* with the locked piece written and the full rows removed, nothing of the
\* new piece being written; and once the game is over no call but startGame
\* locks or spawns: the board, the active piece, the next piece and the
\* bag's history stay as they are.
C22_SpawnCollisionEndsGame ==
  [][ /\ ( /\ last'.res = "locked"
           /\ InPlay
           /\ Collides(board', currentPiece', currentPosition') )
         => /\ gameOver'
            /\ IsCleared(Written(board, currentPiece,
                                 Shifted(currentPosition, 0, last'.dist)), board')
      /\ (gameOver /\ last'.op # "start")
         => /\ last'.res # "locked"
            /\ gameOver'
            /\ board' = board
            /\ currentPiece' = currentPiece
            /\ currentPosition' = currentPosition
            /\ nextPiece' = nextPiece
            /\ draws' = draws
            /\ actives' = actives ]_vars

\* A hard drop has locked a piece under the spawn rows, the promoted piece
\* collides with it, and the game is over.
C22_Witness ==
  /\ last.op = "drop"
  /\ last.res = "locked"
  /\ gameOver
  /\ Overlaps(board, currentPiece, currentPosition)

\* C24: a game that starts with the O piece at its spawn position (columns
\* 4-5, rows 0-1) on the empty board, and in which the player only moves
\* down: the first 18 moves succeed, each taking the piece one row down over
\* the still empty board, and the 19th locks it; after the lock the cells of
\* columns 4-5, rows 18-19 hold the O color, every other cell is empty, no
\* row was cleared and lines is 0.
C24_ODownScenario ==
  (Script = ScriptODown /\ free = 0 /\ ip >= 1) =>
    IF ip <= 19
    THEN /\ currentPiece = TETROMINOS["O"]
         /\ Cells(currentPiece, currentPosition) =
              { <<4, ip - 1>>, <<5, ip - 1>>, <<4, ip>>, <<5, ip>> }
         /\ board = EmptyBoard
         /\ ip > 1 => (last.op = "move" /\ last.dy = 1 /\ last.res = "moved")
         /\ lines = 0
    ELSE /\ last.op = "move" /\ last.dy = 1 /\ last.res = "locked"
         /\ \A x \in 0..9 : \A y \in 0..19 :
              board[y + 1][x + 1] =
                IF x \in {4, 5} /\ y \in {18, 19} THEN "yellow" ELSE EMPTY
         /\ last.cleared = 0
         /\ lines = 0

\* The 19th move down of that game has locked the O piece.
C24_Witness ==
  /\ Script = ScriptODown
  /\ free = 0
  /\ ip = 20
  /\ last.res = "locked"
  /\ actives = <<"O", "T">>

\* C25: for every level >= 1 the timer interval is max(50, 1000 - 100 *
\* (level - 1)) milliseconds, it is at least 50 and at most 1000, and the
\* interval of the next level is not longer.
C25_DropInterval ==
  ivl.done =>
    /\ ivl.level >= 1
    /\ IF ivl.level <= 10
       THEN ivl.ms = 1000 - 100 * (ivl.level - 1)
       ELSE ivl.ms = 50
    /\ \A m \in {50, 1000 - 100 * (ivl.level - 1)} : ivl.ms >= m
    /\ ivl.ms \in {50, 1000 - 100 * (ivl.level - 1)}
    /\ ivl.ms >= 50
    /\ ivl.ms <= 1000
    /\ ivl.next <= ivl.ms

\* The interval of level 11, the first level whose interval is the floor
\* (1000 - 100 * 10 = 0), has been computed.
C25_Witness ==
  /\ ivl.done
  /\ ivl.level = 11
  /\ ivl.ms = 50
  /\ ivl.next = 50

\* C26 (as claimed): in every state of a running game, the move buttons
\* being touched, held and released at any time between the keys and the
\* timer's ticks, no occupied sub-cell of the active piece lies on an
\* occupied board cell or outside columns 0..9.
C26_HeldMoveKeepsPieceFree ==
  (gameStarted /\ ~gameOver /\ currentPiece # NoPiece) =>
    /\ ~Overlaps(board, currentPiece, currentPosition)
    /\ \A c \in Cells(currentPiece, currentPosition) : c[1] \in 0..(BOARD_WIDTH - 1)

\* ---------------------------------------------------------------------------
\* C23.  initGame of page.tsx and of the hook: whatever template is drawn, the
\* collision check on the freshly emptied board is false, so a call of
\* initGame never takes the game-over branch: after it the game is started,
\* not over, the board is empty and the drawn piece is free at its spawn
\* position (one row lower too, which is what page.tsx tests).
C23_InitGameStarts ==
  [][(last'.op = "S" /\ app.variant \in {"page", "hook"}) =>
       /\ last'.res = "started"
       /\ app'.gameStarted /\ ~app'.gameOver
       /\ app'.board = EmptyBoard
       /\ app'.currentPiece # NoPiece
       /\ ~checkCollision(app'.currentPiece, app'.board, 0, 0)
       /\ ~checkCollision(app'.currentPiece, app'.board, 0, 1)]_vars

\* "Play Again" in the hook variant after a game that was lost: the board
\* that held the stack is empty again and the game runs.
C23_Witness ==
  /\ last.op = "S" /\ app.variant = "hook"
  /\ hist.serial > 1
  /\ app.gameStarted /\ ~app.gameOver /\ app.board = EmptyBoard
  /\ free = 1

\* ---------------------------------------------------------------------------
\* C27.  page.tsx: a hard drop is atomic with respect to the events that arrive
\* while its 20 ms step animation runs: a piece that was hard dropped is
\* written to the board at most once, it is followed by the next piece at most
\* once, and its drop bonus is added to the score at most once.
TimesIn(seq, s) == Cardinality({i \in 1..Len(seq) : seq[i] = s})

C27_HardDropAtomic ==
  app.variant = "page" =>
    \A s \in hist.dropped :
       /\ TimesIn(hist.writes, s) <= 1
       /\ TimesIn(hist.promos, s) <= 1
       /\ TimesIn(hist.bonus, s) <= 1

\* ---------------------------------------------------------------------------
\* C28.  page.tsx and the hook: when the clear that follows a lock resolves,
\* only rows that are full on the board are removed, and every cell of the
\* locked piece outside the removed rows is occupied on the new board, moved
\* down by the number of removed rows beneath it.
C28_LockedPieceSurvivesClear ==
  [][(last'.res = "cleared" /\ app.variant \in {"page", "hook"}
        /\ hist.locked # NoPiece) =>
       LET rows == app.clearingRows
           cs == Cells(hist.locked, [x |-> hist.locked.x, y |-> hist.locked.y])
       IN  /\ \A y \in rows : \A x \in 1..BOARD_WIDTH : app.board[y + 1][x] # EMPTY
           /\ \A c \in cs :
                c[2] \notin rows =>
                  Occupied(app'.board,
                           <<c[1], c[2] + Cardinality({y \in rows : y > c[2]})>>)]_vars

\* ---------------------------------------------------------------------------
\* C29.  The hook: a lock after which the next piece collides at its spawn
\* position with the resulting board sets gameOver, and while the game runs
\* the active piece lies on no occupied cell of the board.
C29_HookSpawnCollisionEndsGame ==
  [][app.variant = "hook" =>
       /\ (last'.res \in {"locked", "over"}
             /\ checkCollision(app.nextPiece, app'.board, 0, 0))
            => app'.gameOver
       /\ (app'.gameStarted /\ ~app'.gameOver /\ app'.currentPiece # NoPiece)
            => ~Overlaps(app'.board, app'.currentPiece,
                         [x |-> app'.currentPiece.x, y |-> app'.currentPiece.y])]_vars

\* ---------------------------------------------------------------------------
\* C30.  The classic variant: a lock by movePiece('down') or by hardDrop ends
\* the game if and only if the next piece, at its spawn position, collides
\* with the board that results from the lock and its line clear.
C30_ClassicGameOverIffSpawnCollides ==
  [][(app.variant = "classic" /\ last'.res \in {"locked", "over"}) =>
       (app'.gameOver <=> checkCollision(app.nextPiece, app'.board, 0, 0))]_vars

\* ---------------------------------------------------------------------------
\* C31.  page.tsx: the animation step that ends a hard drop of d rows adds
\* 2 * d to the score, whether the piece is followed by the next piece, has
\* completed a row or has ended the game (the points of the rows are added
\* when the clear resolves).
C31_HardDropBonus ==
  [][(app.variant = "page" /\ last'.op = "A"
        /\ last'.res \in {"locked", "clearing", "over"}
        /\ Len(anims) = 1 /\ TimesIn(hist.writes, anims[1].serial) = 0) =>
       app'.score = app.score + 2 * anims[1].dropDistance]_vars

\* ---------------------------------------------------------------------------
\* C32.  The classic variant and page.tsx: while the game is paused, a key
\* other than the pause key, or the ROT button, changes neither the board,
\* nor the active piece, nor the score, the lines or the level.
C32_PausedInputIsNoOp ==
  [][(app.variant \in {"classic", "page"} /\ app.gameStarted /\ ~app.gameOver
        /\ app.isPaused /\ last'.op \in {"L", "R", "D", "U", "X", "B"}) =>
       /\ app'.board = app.board
       /\ app'.currentPiece = app.currentPiece
       /\ app'.score = app.score
       /\ app'.lines = app.lines
       /\ app'.level = app.level]_vars

\* ---------------------------------------------------------------------------
\* C33.  page.tsx: when the line clear resolves (isClearing becomes false),
\* the active piece is the piece that was the next piece, at its spawn
\* position, whether or not the pause key was pressed during the animation.
C33_ClearPromotesNextPiece ==
  [][(app.variant = "page" /\ app.isClearing /\ ~app'.isClearing
        /\ last'.res = "cleared" /\ ~app.gameOver) =>
       /\ app'.currentPiece = app.nextPiece
       /\ app'.currentPiece = createRandomTetromino(app.nextPiece.key)]_vars

\* ---------------------------------------------------------------------------
\* C34.  Bag variant: in every state between two operations no row of the
\* board is completely occupied.
C34_NoFullRowOnBoard ==
  \A y \in 1..BOARD_HEIGHT : \E x \in 1..BOARD_WIDTH : board[y][x] = EMPTY

\* A lock has just completed four rows at once, and the board that the next
\* operation sees has cells left but no full row.
C34_Witness ==
  /\ last.res = "locked" /\ lines = 4
  /\ \E y \in 1..BOARD_HEIGHT : \E x \in 1..BOARD_WIDTH : board[y][x] # EMPTY
  /\ FullRows(board) = {}

\* ---------------------------------------------------------------------------
\* C35.  Bag variant: a lock removes between 0 and 4 rows, the number it adds
\* to lines, and a lock that removes a row adds to the score, besides the
\* hard drop bonus, the points of one of the four cases of the switch, never
\* the 0 of its default.
C35_ClearedCountHasACase ==
  [][ (last'.res = "locked" /\ InPlay) =>
      LET points == score' - score - 2 * last'.dist
      IN  /\ last'.cleared \in 0..4
          /\ lines' = lines + last'.cleared
          /\ last'.cleared = 0 => points = 0
          /\ last'.cleared > 0 =>
               /\ points > 0
               /\ points \in { POINTS_SINGLE * level, POINTS_DOUBLE * level,
                               POINTS_TRIPLE * level, POINTS_TETRIS * level } ]_vars

\* A lock by the timer or a move down has removed four rows, the most a
\* piece can complete, and has scored them.
C35_Witness ==
  /\ last.op = "move" /\ last.res = "locked" /\ last.cleared = 4
  /\ score >= POINTS_TETRIS

\* ---------------------------------------------------------------------------
\* C36.  Bag variant, cell conservation: a lock writes four cells that were
\* empty, so the board after the lock has as many occupied cells as the board
\* before it, plus 4, minus 10 for each row removed.
OccupiedCount(b) ==
  Cardinality({ c \in (0..(BOARD_WIDTH - 1)) \X (0..(BOARD_HEIGHT - 1)) : Occupied(b, c) })

C36_LockAddsFourCells ==
  [][ (last'.res = "locked" /\ InPlay) =>
        OccupiedCount(board') =
          OccupiedCount(board) + 4 - BOARD_WIDTH * last'.cleared ]_vars

\* ---------------------------------------------------------------------------
\* C37.  Bag variant: a call movePiece(-1, 0) or movePiece(1, 0), by a key,
\* by a touch of a button or by the interval of a held button, leaves the
\* active piece in its row.
C37_SideMoveKeepsRow ==
  [][ (last'.op \in {"move", "repeat"} /\ last'.dx # 0 /\ last'.dy = 0) =>
        currentPosition'.y = currentPosition.y ]_vars

\* ---------------------------------------------------------------------------
\* C38.  Bag variant: while the game runs and the timer keeps firing, the
\* active piece is eventually locked, whatever keys among ArrowLeft,
\* ArrowRight, ArrowDown and ArrowUp are pressed between the ticks.
C38_PieceEventuallyLocks ==
  FirstPieceActive ~> (Len(actives) > 1 \/ gameOver)

\* ---------------------------------------------------------------------------
\* C39.  page.tsx: a line clear animation that has started (isClearing is
\* true) eventually completes (isClearing is false again), also when the
\* game loop's timer fires or ArrowDown is pressed while it runs.
C39_ClearAnimationCompletes ==
  (app.variant = "page" /\ app.isClearing) ~> ~app.isClearing

====
